---- MODULE Spec2Model ----
(***************************************************************************)
(* Membership-consistency and credential-lifecycle engine of langfuse-api. *)
(*                                                                         *)
(* The persisted tables are the fields of the record db.  Every service    *)
(* method is one action.  A method that runs inside transaction() is a     *)
(* "body" operator that threads a working copy of the tables through its   *)
(* statements in program order and stops at the first throw; the           *)
(* Transaction operator then commits the working copy or rolls it back.    *)
(* A statement can also fail for reasons outside the program (the driver   *)
(* raises): the input f of a body names the statement that does.           *)
(***************************************************************************)
EXTENDS Integers, Sequences, FiniteSets, TLC

\* ---------------------------------------------------------------- bounds
\* Users that exist when the service starts (they signed up through the
\* Langfuse application, whose database this service administers).
MaxUsers == 3
\* Identifiers generateId may hand out in one behaviour.
MaxIds == 5
\* Users of the installation that already has a project (WithProject).
ProjectUsers == 2
\* Identifiers generateId may hand out after the project of WithProject exists.
MaxDraws == 2
\* Key pairs generateApiKey may draw in one behaviour.
MaxKeyPairs == 2
\* Longest members array given to addBatchMembers.
MaxBatch == 2
\* The clock runs from 1 to MaxClock.
MaxClock == 3
\* Callers that can be inside transaction() at the same time.
MaxClients == 2
\* Calls of transaction() one caller makes in one behaviour.
MaxCalls == 1

\* ------------------------------------------------------------- constants
\* JavaScript null / undefined / a missing field; identifiers start at 1.
Null == 0
\* new Date(x) for an x that is no date (getTime() is NaN).
InvalidDate == -1
\* The empty string given as a date: falsy, and no date for new Date('').
EmptyString == -2
\* member.userId || 'unknown': what a batch error carries for an entry that
\* has no userId.
Unknown == -1

\* validRoles of OrganizationsService.addMember / updateMember.
OrgRoles == {"OWNER", "ADMIN", "VIEWER", "NONE"}
\* validRoles of ProjectMembershipsService.addMember / updateMember.
ProjectRoles == {"OWNER", "ADMIN", "MEMBER", "VIEWER"}
\* The role argument when the caller leaves it out (role = 'VIEWER' default).
Undefined == "undefined"

\* The prefixes generateId is called with.
Prefixes == {"usr", "org", "om", "prj", "key"}

VARIABLES
    db,     \* the persisted tables (committed state)
    ids,    \* per prefix, how many identifiers generateId has handed out
    rnd,    \* how many key strings generateApiKey has drawn
    now,    \* the clock: CURRENT_TIMESTAMP and new Date()
    last,   \* the most recent service call and its outcome, as its caller sees it
            \* (value: what it returned, as a sequence of rows; <<>> for null)
    clients,    \* per caller, where its call of transaction() stands
    pool,       \* connections of the pool that are checked out
    isolation   \* how the database isolates a transaction opened by BEGIN

vars == <<db, ids, rnd, now, last, clients, pool, isolation>>

\* What a call that runs as one step leaves alone.
connections == <<clients, pool, isolation>>

\* ------------------------------------------------------------ error kinds
\* What a caller observes: the class of the error and, for a DatabaseError,
\* the class of its cause.
Ok == [kind |-> "ok", cause |-> "none"]
BusinessLogicError == [kind |-> "BusinessLogicError", cause |-> "none"]
NotFoundError == [kind |-> "NotFoundError", cause |-> "none"]
ConflictError == [kind |-> "ConflictError", cause |-> "none"]
DatabaseError(cause) == [kind |-> "DatabaseError", cause |-> cause]

\* The typed failures a unit of work raises on purpose.
TypedKinds == {"NotFoundError", "ConflictError", "BusinessLogicError"}

\* --------------------------------------------------------------- generateId
Drawn(c) == c["usr"] + c["org"] + c["om"] + c["prj"] + c["key"]

\* generateId(prefix): a value no earlier call returned.
GenerateId(c, prefix) == c[prefix] + 1

Advance(c, prefix) == [c EXCEPT ![prefix] = @ + 1]

\* ------------------------------------------------------------ transaction
\* The state a unit of work runs on: the working copy of the tables, the
\* identifier counters, and what it has thrown so far ("none": still running).
Start(d, c, n) == [db |-> d, ids |-> c, rnd |-> n, err |-> "none"]

Throw(s, kind) == [s EXCEPT !.err = kind]

\* DatabaseService.transaction as a buggy variant: the catch block forgets
\* the ROLLBACK, so the writes made before the throw stay.
TransactionNoRollback(s0, f, r) ==
    IF f = "BEGIN"
    THEN [db |-> s0.db, ids |-> s0.ids, rnd |-> s0.rnd, out |-> DatabaseError("DriverError")]
    ELSE IF r.err = "none" /\ f # "COMMIT"
    THEN [db |-> r.db, ids |-> r.ids, rnd |-> r.rnd, out |-> Ok]
    ELSE [db |-> r.db, ids |-> r.ids, rnd |-> r.rnd,
          out |-> DatabaseError(IF r.err = "none" THEN "DriverError" ELSE r.err)]

\* DatabaseService.transaction(callback): s0 is the state the call starts
\* from, r the run of the callback on it, f the statement the driver fails on.
\*   BEGIN; result = callback(client); COMMIT; return result
\*   catch (error): ROLLBACK; throw new DatabaseError(..., {cause: error})
\* The identifiers and keys a rolled-back callback drew are neither stored
\* nor returned, so the counters advance on commit only.
Transaction(s0, f, r) ==
    IF f = "BEGIN"
    THEN [db |-> s0.db, ids |-> s0.ids, rnd |-> s0.rnd, out |-> DatabaseError("DriverError")]
    ELSE IF r.err = "none" /\ f # "COMMIT"
    THEN [db |-> r.db, ids |-> r.ids, rnd |-> r.rnd, out |-> Ok]
    ELSE [db |-> s0.db, ids |-> s0.ids, rnd |-> s0.rnd,
          out |-> DatabaseError(IF r.err = "none" THEN "DriverError" ELSE r.err)]

\* A call that throws before it opens a transaction or issues a query.
Reject(s0, e) == [db |-> s0.db, ids |-> s0.ids, rnd |-> s0.rnd, out |-> e]

\* DatabaseService.query(text, params) outside a transaction: one statement,
\* atomic; a driver failure is rethrown as a DatabaseError.
Query(s0, f, newDb, outcome) ==
    IF f = "query"
    THEN [db |-> s0.db, ids |-> s0.ids, rnd |-> s0.rnd, out |-> DatabaseError("DriverError")]
    ELSE [db |-> newDb, ids |-> s0.ids, rnd |-> s0.rnd, out |-> outcome]

\* The step a service call makes: the tables and counters it leaves, and
\* what the caller sees.
Return(op, r) ==
    \E res \in {r} :
        /\ db' = res.db
        /\ ids' = res.ids
        /\ rnd' = res.rnd
        /\ UNCHANGED <<now, connections>>
        /\ last' = [op |-> op, kind |-> res.out.kind, cause |-> res.out.cause,
                    members |-> <<>>, success |-> <<>>, errors |-> <<>>,
                    value |-> <<>>]

\* What a call outside the batch returns to its caller: like Return, with
\* the rows (or the one object) it resolved to.
ReturnValue(op, r) ==
    \E res \in {r} :
        /\ db' = res.db
        /\ ids' = res.ids
        /\ rnd' = res.rnd
        /\ UNCHANGED <<now, connections>>
        /\ last' = [op |-> op, kind |-> res.out.kind, cause |-> res.out.cause,
                    members |-> <<>>, success |-> <<>>, errors |-> <<>>,
                    value |-> res.value]

\* The result of a call with the value it resolves to (nothing on failure).
WithValue(r, value) ==
    [db |-> r.db, ids |-> r.ids, rnd |-> r.rnd, out |-> r.out,
     value |-> IF r.out.kind = "ok" THEN value ELSE <<>>]

\* ------------------------------------------------------------------ tables
UserExists(d, userId) == \E u \in d.users : u.id = userId

OrgExists(d, orgId) == \E o \in d.organizations : o.id = orgId

\* SELECT ... FROM organization_memberships WHERE org_id = $1 AND user_id = $2
OrgMembershipsOf(d, orgId, userId) ==
    {m \in d.organization_memberships : m.org_id = orgId /\ m.user_id = userId}

\* SELECT COUNT(*) FROM organization_memberships WHERE org_id = $1 AND role = 'OWNER'
OrgOwnersCount(d, orgId) ==
    Cardinality({m \in d.organization_memberships :
                    m.org_id = orgId /\ m.role = "OWNER"})

\* SELECT ... FROM projects WHERE id = $1 AND deleted_at IS NULL
LiveProjects(d, projectId) ==
    {p \in d.projects : p.id = projectId /\ p.deleted_at = Null}

\* SELECT ... FROM project_memberships WHERE project_id = $1 AND user_id = $2
ProjectMembershipsOf(d, projectId, userId) ==
    {m \in d.project_memberships : m.project_id = projectId /\ m.user_id = userId}

\* SELECT COUNT(*) FROM project_memberships WHERE project_id = $1 AND role = 'OWNER'
ProjectOwnersCount(d, projectId) ==
    Cardinality({m \in d.project_memberships :
                    m.project_id = projectId /\ m.role = "OWNER"})

\* INSERT INTO organization_memberships (id, org_id, user_id, role, ...)
InsertOrgMembership(s, id, orgId, userId, role) ==
    [s EXCEPT !.db.organization_memberships =
        @ \cup {[id |-> id, org_id |-> orgId, user_id |-> userId, role |-> role]}]

\* The identifiers a caller may pass: every one handed out so far and one
\* that was never handed out.
IdInputs(prefix) == 1..(ids[prefix] + 1)

\* name.trim(): a name of blanks becomes the empty string.
Trim(name) == IF name = " " THEN "" ELSE name

\* ------------------------------------------------- OrganizationsService
\* The unit of work of create without its third statement: the organization
\* row is written, the OWNER membership is not.
OrgCreateBodyNoOwner(s, name, userId, f) ==
    IF f = "q1" THEN Throw(s, "DriverError")
    ELSE IF ~UserExists(s.db, userId) THEN Throw(s, "NotFoundError")
    ELSE
    LET id == GenerateId(s.ids, "org")
        s1 == [s EXCEPT !.ids = Advance(@, "org")]
    IN  IF f = "q2" THEN Throw(s1, "DriverError")
        ELSE [s1 EXCEPT !.db.organizations = @ \cup {[id |-> id, name |-> name]}]

\* The unit of work of create.
OrgCreateBody(s, name, userId, f) ==
    IF f = "q1" THEN Throw(s, "DriverError")
    ELSE IF ~UserExists(s.db, userId) THEN Throw(s, "NotFoundError")
    ELSE
    LET id == GenerateId(s.ids, "org")
        s1 == [s EXCEPT !.ids = Advance(@, "org")]
    IN  IF f = "q2" THEN Throw(s1, "DriverError")
        ELSE
        LET s2 == [s1 EXCEPT !.db.organizations = @ \cup {[id |-> id, name |-> name]}]
            membershipId == GenerateId(s2.ids, "om")
            s3 == [s2 EXCEPT !.ids = Advance(@, "om")]
        IN  IF f = "q3" THEN Throw(s3, "DriverError")
            ELSE InsertOrgMembership(s3, membershipId, id, userId, "OWNER")

\* OrganizationsService.create({name, userId})
OrgCreate(name, userId, f) ==
    LET s0 == Start(db, ids, rnd)
    IN  Return("org.create",
            IF Trim(name) = "" THEN Reject(s0, BusinessLogicError)
            ELSE IF userId = Null THEN Reject(s0, BusinessLogicError)
            ELSE Transaction(s0, f, OrgCreateBody(s0, Trim(name), userId, f)))

\* The unit of work of addMember without the memberCheck: a pair that is
\* already a membership gets a second row.
OrgAddMemberBodyNoCheck(s, orgId, userId, role, f) ==
    IF f = "q1" THEN Throw(s, "DriverError")
    ELSE IF ~UserExists(s.db, userId) THEN Throw(s, "NotFoundError")
    ELSE IF f = "q2" THEN Throw(s, "DriverError")
    ELSE IF ~OrgExists(s.db, orgId) THEN Throw(s, "NotFoundError")
    ELSE
    LET membershipId == GenerateId(s.ids, "om")
        s1 == [s EXCEPT !.ids = Advance(@, "om")]
    IN  IF f = "q4" THEN Throw(s1, "DriverError")
        ELSE InsertOrgMembership(s1, membershipId, orgId, userId, role)

\* The unit of work of addMember.
OrgAddMemberBody(s, orgId, userId, role, f) ==
    IF f = "q1" THEN Throw(s, "DriverError")
    ELSE IF ~UserExists(s.db, userId) THEN Throw(s, "NotFoundError")
    ELSE IF f = "q2" THEN Throw(s, "DriverError")
    ELSE IF ~OrgExists(s.db, orgId) THEN Throw(s, "NotFoundError")
    ELSE IF f = "q3" THEN Throw(s, "DriverError")
    ELSE IF OrgMembershipsOf(s.db, orgId, userId) # {} THEN Throw(s, "ConflictError")
    ELSE
    LET membershipId == GenerateId(s.ids, "om")
        s1 == [s EXCEPT !.ids = Advance(@, "om")]
    IN  IF f = "q4" THEN Throw(s1, "DriverError")
        ELSE InsertOrgMembership(s1, membershipId, orgId, userId, role)

\* OrganizationsService.addMember(orgId, userId, role = 'VIEWER'), as a
\* function of the state s0 it is called in.
OrgAddMemberCall(s0, orgId, userId, roleArg, f) ==
    LET role == IF roleArg = Undefined THEN "VIEWER" ELSE roleArg
    IN  IF userId = Null THEN Reject(s0, BusinessLogicError)
        ELSE IF role \notin OrgRoles THEN Reject(s0, BusinessLogicError)
        ELSE Transaction(s0, f, OrgAddMemberBody(s0, orgId, userId, role, f))

OrgAddMember(orgId, userId, roleArg, f) ==
    Return("org.addMember",
           OrgAddMemberCall(Start(db, ids, rnd), orgId, userId, roleArg, f))

\* UPDATE organization_memberships SET role = $1 WHERE org_id = $2 AND user_id = $3
OrgSetRole(d, orgId, userId, role) ==
    [d EXCEPT !.organization_memberships =
        {IF m.org_id = orgId /\ m.user_id = userId
            THEN [m EXCEPT !.role = role] ELSE m : m \in @}]

\* The unit of work of updateMember without the owner count: a demotion of
\* an OWNER is written whatever the number of owners.
OrgUpdateMemberBodyNoCount(s, orgId, userId, role, f) ==
    LET currentRole == OrgMembershipsOf(s.db, orgId, userId)
    IN  IF f = "q1" THEN Throw(s, "DriverError")
        ELSE IF currentRole = {} THEN Throw(s, "NotFoundError")
        ELSE IF f = "q3" THEN Throw(s, "DriverError")
        ELSE [s EXCEPT !.db = OrgSetRole(@, orgId, userId, role)]

\* The unit of work of updateMember when the new role is not OWNER.
OrgUpdateMemberBody(s, orgId, userId, role, f) ==
    LET currentRole == OrgMembershipsOf(s.db, orgId, userId)
    IN  IF f = "q1" THEN Throw(s, "DriverError")
        ELSE IF currentRole = {} THEN Throw(s, "NotFoundError")
        ELSE IF (CHOOSE m \in currentRole : TRUE).role = "OWNER" /\ f = "q2"
        THEN Throw(s, "DriverError")
        ELSE IF (CHOOSE m \in currentRole : TRUE).role = "OWNER"
                /\ OrgOwnersCount(s.db, orgId) <= 1
        THEN Throw(s, "BusinessLogicError")
        ELSE IF f = "q3" THEN Throw(s, "DriverError")
        ELSE [s EXCEPT !.db = OrgSetRole(@, orgId, userId, role)]

\* OrganizationsService.updateMember(orgId, userId, role), as a function of
\* the state s0 it is called in.
OrgUpdateMemberCall(s0, orgId, userId, role, f) ==
    IF role = Undefined THEN Reject(s0, BusinessLogicError)
    ELSE IF role \notin OrgRoles THEN Reject(s0, BusinessLogicError)
    ELSE IF role # "OWNER"
    THEN Transaction(s0, f, OrgUpdateMemberBody(s0, orgId, userId, role, f))
    ELSE IF OrgMembershipsOf(s0.db, orgId, userId) = {}
    THEN Query(s0, f, s0.db, NotFoundError)
    ELSE Query(s0, f, OrgSetRole(s0.db, orgId, userId, role), Ok)

OrgUpdateMember(orgId, userId, role, f) ==
    Return("org.updateMember",
           OrgUpdateMemberCall(Start(db, ids, rnd), orgId, userId, role, f))

\* The unit of work of removeMember with the owner count compared by < 1
\* instead of <= 1: the last OWNER can be removed.
OrgRemoveMemberBodyOffByOne(s, orgId, userId, f) ==
    LET currentRole == OrgMembershipsOf(s.db, orgId, userId)
    IN  IF f = "q1" THEN Throw(s, "DriverError")
        ELSE IF currentRole = {} THEN Throw(s, "NotFoundError")
        ELSE IF (CHOOSE m \in currentRole : TRUE).role = "OWNER" /\ f = "q2"
        THEN Throw(s, "DriverError")
        ELSE IF (CHOOSE m \in currentRole : TRUE).role = "OWNER"
                /\ OrgOwnersCount(s.db, orgId) < 1
        THEN Throw(s, "BusinessLogicError")
        ELSE IF f = "q3" THEN Throw(s, "DriverError")
        ELSE
        LET omIds == {m.id : m \in OrgMembershipsOf(s.db, orgId, userId)}
            s1 == [s EXCEPT !.db.project_memberships =
                      {pm \in @ : pm.org_membership_id \notin omIds}]
        IN  IF f = "q4" THEN Throw(s1, "DriverError")
            ELSE [s1 EXCEPT !.db.organization_memberships =
                      @ \ OrgMembershipsOf(s1.db, orgId, userId)]

\* The unit of work of removeMember without the DELETE FROM
\* project_memberships that precedes the deletion of the membership.
OrgRemoveMemberBodyNoCascade(s, orgId, userId, f) ==
    LET currentRole == OrgMembershipsOf(s.db, orgId, userId)
    IN  IF f \in {"q1", "q2", "q3", "q4"} THEN Throw(s, "DriverError")
        ELSE IF currentRole = {} THEN Throw(s, "NotFoundError")
        ELSE IF (CHOOSE m \in currentRole : TRUE).role = "OWNER"
                /\ OrgOwnersCount(s.db, orgId) <= 1
        THEN Throw(s, "BusinessLogicError")
        ELSE [s EXCEPT !.db.organization_memberships = @ \ currentRole]

\* The unit of work of removeMember.
OrgRemoveMemberBody(s, orgId, userId, f) ==
    LET currentRole == OrgMembershipsOf(s.db, orgId, userId)
    IN  IF f = "q1" THEN Throw(s, "DriverError")
        ELSE IF currentRole = {} THEN Throw(s, "NotFoundError")
        ELSE IF (CHOOSE m \in currentRole : TRUE).role = "OWNER" /\ f = "q2"
        THEN Throw(s, "DriverError")
        ELSE IF (CHOOSE m \in currentRole : TRUE).role = "OWNER"
                /\ OrgOwnersCount(s.db, orgId) <= 1
        THEN Throw(s, "BusinessLogicError")
        ELSE IF f = "q3" THEN Throw(s, "DriverError")
        ELSE
        LET omIds == {m.id : m \in OrgMembershipsOf(s.db, orgId, userId)}
            s1 == [s EXCEPT !.db.project_memberships =
                      {pm \in @ : pm.org_membership_id \notin omIds}]
        IN  IF f = "q4" THEN Throw(s1, "DriverError")
            ELSE IF OrgMembershipsOf(s1.db, orgId, userId) = {}
            THEN Throw(s1, "NotFoundError")
            ELSE [s1 EXCEPT !.db.organization_memberships =
                      @ \ OrgMembershipsOf(s1.db, orgId, userId)]

\* OrganizationsService.removeMember(orgId, userId), as a function of the
\* state s0 it is called in.
OrgRemoveMemberCall(s0, orgId, userId, f) ==
    Transaction(s0, f, OrgRemoveMemberBody(s0, orgId, userId, f))

OrgRemoveMember(orgId, userId, f) ==
    Return("org.removeMember",
           OrgRemoveMemberCall(Start(db, ids, rnd), orgId, userId, f))


\* ---------------------------------------------------------- UsersService
\* The unit of work of create.
UserCreateBody(s, email, f) ==
    IF f = "q1" THEN Throw(s, "DriverError")
    ELSE IF \E u \in s.db.users : u.email = email THEN Throw(s, "ConflictError")
    ELSE
    LET id == GenerateId(s.ids, "usr")
        s1 == [s EXCEPT !.ids = Advance(@, "usr")]
    IN  IF f = "q2" THEN Throw(s1, "DriverError")
        ELSE [s1 EXCEPT !.db.users = @ \cup {[id |-> id, email |-> email]}]

\* UsersService.create({name, email, password})
UserCreate(email, f) ==
    LET s0 == Start(db, ids, rnd)
    IN  Return("users.create",
            IF email = Null THEN Reject(s0, BusinessLogicError)
            ELSE Transaction(s0, f, UserCreateBody(s0, email, f)))

\* The unit of work of delete without the membership count.
UserDeleteBodyNoGuard(s, id, f) ==
    IF f = "q1" THEN Throw(s, "DriverError")
    ELSE IF f = "q2" THEN Throw(s, "DriverError")
    ELSE
    LET s1 == [s EXCEPT !.db.accounts = @ \ {id}]
    IN  IF f = "q3" THEN Throw(s1, "DriverError")
        ELSE
        LET s2 == [s1 EXCEPT !.db.sessions = @ \ {id}]
        IN  IF f = "q4" THEN Throw(s2, "DriverError")
            ELSE IF ~UserExists(s2.db, id) THEN Throw(s2, "NotFoundError")
            ELSE [s2 EXCEPT !.db.users = {u \in @ : u.id # id}]

\* The unit of work of delete.
UserDeleteBody(s, id, f) ==
    LET membershipCount ==
            Cardinality({m \in s.db.organization_memberships : m.user_id = id})
    IN  IF f = "q1" THEN Throw(s, "DriverError")
        ELSE IF membershipCount > 0 THEN Throw(s, "BusinessLogicError")
        ELSE IF f = "q2" THEN Throw(s, "DriverError")
        ELSE
        LET s1 == [s EXCEPT !.db.accounts = @ \ {id}]
        IN  IF f = "q3" THEN Throw(s1, "DriverError")
            ELSE
            LET s2 == [s1 EXCEPT !.db.sessions = @ \ {id}]
            IN  IF f = "q4" THEN Throw(s2, "DriverError")
                ELSE IF ~UserExists(s2.db, id) THEN Throw(s2, "NotFoundError")
                ELSE [s2 EXCEPT !.db.users = {u \in @ : u.id # id}]

\* UsersService.delete(id), as a function of the state s0 it is called in.
UserDeleteCall(s0, id, f) == Transaction(s0, f, UserDeleteBody(s0, id, f))

UserDelete(id, f) ==
    Return("users.delete", UserDeleteCall(Start(db, ids, rnd), id, f))

\* ------------------------------------------------------- credential codec
\* generateApiKey(prefix): prefix + '_' + 16 random bytes in hex; n numbers
\* the draw, so no two draws give the same string.
GenerateApiKey(prefix, n) == <<prefix, n>>

\* A digest of the first characters of the secret only: secrets that share
\* them share the digest.
HashOfFragment(secretKey) == <<"sha256", "salt", secretKey[1], secretKey[2] \div 2>>

\* hashSecretKey(secretKey): sha256('salt' + secretKey), hex; one-way and
\* deterministic, kept symbolic.
HashSecretKey(secretKey) == <<"sha256", "salt", secretKey>>

\* secretKey.substring(0, 8) + '...': the first characters only, so
\* different secrets can share a fragment.
DisplaySecretKey(secretKey) == <<secretKey[1], secretKey[2] \div 2, "...">>

\* ------------------------------------------------------- ProjectsService
\* The unit of work of create.
ProjCreateBody(s, name, orgId, f) ==
    IF f = "q1" THEN Throw(s, "DriverError")
    ELSE IF ~OrgExists(s.db, orgId) THEN Throw(s, "NotFoundError")
    ELSE
    LET projectId == GenerateId(s.ids, "prj")
        s1 == [s EXCEPT !.ids = Advance(@, "prj")]
    IN  IF f = "q2" THEN Throw(s1, "DriverError")
        ELSE
        LET s2 == [s1 EXCEPT !.db.projects =
                      @ \cup {[id |-> projectId, name |-> name, org_id |-> orgId,
                              deleted_at |-> Null]}]
            publicKey == GenerateApiKey("pk", s2.rnd + 1)
            secretKey == GenerateApiKey("sk", s2.rnd + 2)
            apiKeyId == GenerateId(s2.ids, "key")
            s3 == [s2 EXCEPT !.rnd = @ + 2, !.ids = Advance(@, "key")]
        IN  IF f = "q3" THEN Throw(s3, "DriverError")
            ELSE [s3 EXCEPT !.db.api_keys = @ \cup
                    {[id |-> apiKeyId, project_id |-> projectId,
                      public_key |-> publicKey,
                      hashed_secret_key |-> HashSecretKey(secretKey),
                      display_secret_key |-> DisplaySecretKey(secretKey),
                      note |-> Null, expires_at |-> Null, last_used_at |-> Null]}]

\* ProjectsService.create({name, orgId})
ProjCreate(name, orgId, f) ==
    LET s0 == Start(db, ids, rnd)
    IN  Return("projects.create",
            IF Trim(name) = "" THEN Reject(s0, BusinessLogicError)
            ELSE IF orgId = Null THEN Reject(s0, BusinessLogicError)
            ELSE Transaction(s0, f, ProjCreateBody(s0, Trim(name), orgId, f)))

\* ProjectsService.delete(id): the soft delete.
ProjDelete(id, f) ==
    LET s0 == Start(db, ids, rnd)
    IN  Return("projects.delete",
            IF LiveProjects(db, id) = {}
            THEN Query(s0, f, db, NotFoundError)
            ELSE Query(s0, f,
                       [db EXCEPT !.projects =
                           {IF p.id = id /\ p.deleted_at = Null
                               THEN [p EXCEPT !.deleted_at = now] ELSE p : p \in @}],
                       Ok))

\* --------------------------------------------- ProjectMembershipsService
\* ProjectMembershipsService.getByProject(projectId): the members of a
\* project that is not soft-deleted, joined with their users, newest first
\* (the rows carry no timestamp here; they are given as the set they form).
ProjGetByProjectCall(s0, projectId, f) ==
    LET joined == {x \in s0.db.project_memberships \X s0.db.users :
                      x[1].project_id = projectId /\ x[1].user_id = x[2].id}
    IN  IF f = "q1" THEN WithValue(Query(s0, "query", s0.db, Ok), <<>>)
        ELSE IF LiveProjects(s0.db, projectId) = {}
        THEN WithValue(Query(s0, "none", s0.db, NotFoundError), <<>>)
        ELSE WithValue(Query(s0, IF f = "q2" THEN "query" ELSE "none", s0.db, Ok),
                <<{[project_id |-> x[1].project_id, user_id |-> x[1].user_id,
                    role |-> x[1].role, email |-> x[2].email] : x \in joined}>>)

ProjGetByProject(projectId, f) ==
    ReturnValue("projectMemberships.getByProject",
                ProjGetByProjectCall(Start(db, ids, rnd), projectId, f))

\* The INSERT INTO project_memberships with the back-reference set to the
\* organization membership created last, whoever holds it.
InsertProjectMembershipLatest(s, projectId, userId, orgMembershipId, role) ==
    [s EXCEPT !.db.project_memberships =
        @ \cup {[project_id |-> projectId, user_id |-> userId,
                 org_membership_id |-> s.ids["om"], role |-> role]}]

\* INSERT INTO project_memberships (project_id, user_id, org_membership_id, role, ...)
InsertProjectMembership(s, projectId, userId, orgMembershipId, role) ==
    [s EXCEPT !.db.project_memberships =
        @ \cup {[project_id |-> projectId, user_id |-> userId,
                 org_membership_id |-> orgMembershipId, role |-> role]}]

\* The unit of work of addMember with the automatic organization membership
\* written with the project role instead of 'VIEWER'.
ProjAddMemberBodyJoinAsRole(s, projectId, userId, role, f) ==
    LET projectCheck == LiveProjects(s.db, projectId)
    IN  IF f = "q1" THEN Throw(s, "DriverError")
        ELSE IF projectCheck = {} THEN Throw(s, "NotFoundError")
        ELSE IF f = "q2" THEN Throw(s, "DriverError")
        ELSE IF ~UserExists(s.db, userId) THEN Throw(s, "NotFoundError")
        ELSE IF f = "q3" THEN Throw(s, "DriverError")
        ELSE
        LET orgId == (CHOOSE p \in projectCheck : TRUE).org_id
            orgMembershipCheck == OrgMembershipsOf(s.db, orgId, userId)
            autoJoin == orgMembershipCheck = {}
            orgMembershipId == IF autoJoin THEN GenerateId(s.ids, "om")
                               ELSE (CHOOSE m \in orgMembershipCheck : TRUE).id
            s1 == IF autoJoin THEN [s EXCEPT !.ids = Advance(@, "om")] ELSE s
            s2 == IF autoJoin
                  THEN InsertOrgMembership(s1, orgMembershipId, orgId, userId, role)
                  ELSE s1
        IN  IF autoJoin /\ f = "q4" THEN Throw(s1, "DriverError")
            ELSE IF f = "q5" THEN Throw(s2, "DriverError")
            ELSE IF ProjectMembershipsOf(s2.db, projectId, userId) # {}
            THEN Throw(s2, "ConflictError")
            ELSE IF f = "q6" THEN Throw(s2, "DriverError")
            ELSE InsertProjectMembership(s2, projectId, userId, orgMembershipId, role)

\* The unit of work of addMember.
ProjAddMemberBody(s, projectId, userId, role, f) ==
    LET projectCheck == LiveProjects(s.db, projectId)
    IN  IF f = "q1" THEN Throw(s, "DriverError")
        ELSE IF projectCheck = {} THEN Throw(s, "NotFoundError")
        ELSE IF f = "q2" THEN Throw(s, "DriverError")
        ELSE IF ~UserExists(s.db, userId) THEN Throw(s, "NotFoundError")
        ELSE IF f = "q3" THEN Throw(s, "DriverError")
        ELSE
        LET orgId == (CHOOSE p \in projectCheck : TRUE).org_id
            orgMembershipCheck == OrgMembershipsOf(s.db, orgId, userId)
            autoJoin == orgMembershipCheck = {}
            orgMembershipId == IF autoJoin THEN GenerateId(s.ids, "om")
                               ELSE (CHOOSE m \in orgMembershipCheck : TRUE).id
            s1 == IF autoJoin THEN [s EXCEPT !.ids = Advance(@, "om")] ELSE s
        IN  IF autoJoin /\ f = "q4" THEN Throw(s1, "DriverError")
            ELSE
            LET s2 == IF autoJoin
                      THEN InsertOrgMembership(s1, orgMembershipId, orgId, userId, "VIEWER")
                      ELSE s1
            IN  IF f = "q5" THEN Throw(s2, "DriverError")
                ELSE IF ProjectMembershipsOf(s2.db, projectId, userId) # {}
                THEN Throw(s2, "ConflictError")
                ELSE IF f = "q6" THEN Throw(s2, "DriverError")
                ELSE
                LET s3 == InsertProjectMembership(s2, projectId, userId,
                                                  orgMembershipId, role)
                IN  IF f = "q7" THEN Throw(s3, "DriverError") ELSE s3

\* ProjectMembershipsService.addMember(projectId, userId, role = 'VIEWER'),
\* as a function of the state it is called in.
ProjAddMemberCall(s0, projectId, userId, roleArg, f) ==
    LET role == IF roleArg = Undefined THEN "VIEWER" ELSE roleArg
    IN  IF userId = Null THEN Reject(s0, BusinessLogicError)
        ELSE IF role \notin ProjectRoles THEN Reject(s0, BusinessLogicError)
        ELSE Transaction(s0, f, ProjAddMemberBody(s0, projectId, userId, role, f))

ProjAddMember(projectId, userId, roleArg, f) ==
    Return("projectMemberships.addMember",
           ProjAddMemberCall(Start(db, ids, rnd), projectId, userId, roleArg, f))

\* UPDATE project_memberships SET role = $1 WHERE project_id = $2 AND user_id = $3
ProjSetRole(d, projectId, userId, role) ==
    [d EXCEPT !.project_memberships =
        {IF m.project_id = projectId /\ m.user_id = userId
            THEN [m EXCEPT !.role = role] ELSE m : m \in @}]

\* The unit of work of updateMember when the new role is not OWNER.
ProjUpdateMemberBody(s, projectId, userId, role, f) ==
    LET currentRole == ProjectMembershipsOf(s.db, projectId, userId)
    IN  IF f = "q1" THEN Throw(s, "DriverError")
        ELSE IF currentRole = {} THEN Throw(s, "NotFoundError")
        ELSE IF (CHOOSE m \in currentRole : TRUE).role = "OWNER" /\ f = "q2"
        THEN Throw(s, "DriverError")
        ELSE IF (CHOOSE m \in currentRole : TRUE).role = "OWNER"
                /\ ProjectOwnersCount(s.db, projectId) <= 1
        THEN Throw(s, "BusinessLogicError")
        ELSE IF f = "q3" THEN Throw(s, "DriverError")
        ELSE
        LET s1 == [s EXCEPT !.db = ProjSetRole(@, projectId, userId, role)]
        IN  IF f = "q4" THEN Throw(s1, "DriverError") ELSE s1

\* The unit of work of updateMember when the new role is OWNER.
ProjPromoteBody(s, projectId, userId, role, f) ==
    IF f = "q1" THEN Throw(s, "DriverError")
    ELSE IF ProjectMembershipsOf(s.db, projectId, userId) = {}
    THEN Throw(s, "NotFoundError")
    ELSE
    LET s1 == [s EXCEPT !.db = ProjSetRole(@, projectId, userId, role)]
    IN  IF f = "q2" THEN Throw(s1, "DriverError") ELSE s1

\* ProjectMembershipsService.updateMember(projectId, userId, role), as a
\* function of the state s0 it is called in.
ProjUpdateMemberCall(s0, projectId, userId, role, f) ==
    IF role = Undefined THEN Reject(s0, BusinessLogicError)
    ELSE IF role \notin ProjectRoles THEN Reject(s0, BusinessLogicError)
    ELSE IF role # "OWNER"
    THEN Transaction(s0, f, ProjUpdateMemberBody(s0, projectId, userId, role, f))
    ELSE Transaction(s0, f, ProjPromoteBody(s0, projectId, userId, role, f))

ProjUpdateMember(projectId, userId, role, f) ==
    Return("projectMemberships.updateMember",
           ProjUpdateMemberCall(Start(db, ids, rnd), projectId, userId, role, f))

\* The unit of work of removeMember without the owner count.
ProjRemoveMemberBodyNoCount(s, projectId, userId, f) ==
    IF f \in {"q1", "q2", "q3"} THEN Throw(s, "DriverError")
    ELSE IF ProjectMembershipsOf(s.db, projectId, userId) = {}
    THEN Throw(s, "NotFoundError")
    ELSE [s EXCEPT !.db.project_memberships =
              @ \ ProjectMembershipsOf(s.db, projectId, userId)]

\* The unit of work of removeMember.
ProjRemoveMemberBody(s, projectId, userId, f) ==
    LET currentRole == ProjectMembershipsOf(s.db, projectId, userId)
    IN  IF f = "q1" THEN Throw(s, "DriverError")
        ELSE IF currentRole = {} THEN Throw(s, "NotFoundError")
        ELSE IF (CHOOSE m \in currentRole : TRUE).role = "OWNER" /\ f = "q2"
        THEN Throw(s, "DriverError")
        ELSE IF (CHOOSE m \in currentRole : TRUE).role = "OWNER"
                /\ ProjectOwnersCount(s.db, projectId) <= 1
        THEN Throw(s, "BusinessLogicError")
        ELSE IF f = "q3" THEN Throw(s, "DriverError")
        ELSE IF ProjectMembershipsOf(s.db, projectId, userId) = {}
        THEN Throw(s, "NotFoundError")
        ELSE [s EXCEPT !.db.project_memberships =
                  @ \ ProjectMembershipsOf(s.db, projectId, userId)]

\* ProjectMembershipsService.removeMember(projectId, userId), as a function
\* of the state s0 it is called in.
ProjRemoveMemberCall(s0, projectId, userId, f) ==
    Transaction(s0, f, ProjRemoveMemberBody(s0, projectId, userId, f))

ProjRemoveMember(projectId, userId, f) ==
    Return("projectMemberships.removeMember",
           ProjRemoveMemberCall(Start(db, ids, rnd), projectId, userId, f))

\* --------------------------------------------------------- ApiKeysService
\* The expiration check that create, regenerate and updateExpiration open
\* with: a falsy value (null, undefined, '') means no expiration; otherwise
\* new Date(expiresAt) must be a date and later than new Date().
ParseExpiresAt(expiresAt, clock) ==
    IF expiresAt \in {Null, EmptyString} THEN [err |-> "none", value |-> Null]
    ELSE IF expiresAt = InvalidDate THEN [err |-> "BusinessLogicError", value |-> Null]
    ELSE IF expiresAt <= clock THEN [err |-> "BusinessLogicError", value |-> Null]
    ELSE [err |-> "none", value |-> expiresAt]

\* The unit of work of create.
ApiKeyCreateBody(s, projectId, note, parsedExpiresAt, f) ==
    IF f = "q1" THEN Throw(s, "DriverError")
    ELSE IF LiveProjects(s.db, projectId) = {} THEN Throw(s, "NotFoundError")
    ELSE
    LET publicKey == GenerateApiKey("pk", s.rnd + 1)
        secretKey == GenerateApiKey("sk", s.rnd + 2)
        apiKeyId == GenerateId(s.ids, "key")
        s1 == [s EXCEPT !.rnd = @ + 2, !.ids = Advance(@, "key")]
    IN  IF f = "q2" THEN Throw(s1, "DriverError")
        ELSE [s1 EXCEPT !.db.api_keys = @ \cup
                {[id |-> apiKeyId, project_id |-> projectId,
                  public_key |-> publicKey,
                  hashed_secret_key |-> HashSecretKey(secretKey),
                  display_secret_key |-> DisplaySecretKey(secretKey),
                  note |-> note, expires_at |-> parsedExpiresAt,
                  last_used_at |-> Null]}]

\* The empty string: what !publicKey / !secretKey turn away.
NoKey == <<>>

\* { expiresAt = null } = {}: the option when it is given, null when the
\* caller left it out (or passed undefined).
DefaultNull(options) == IF options.given THEN options.expiresAt ELSE Null

\* A column list that also names hashed_secret_key.
ApiKeyColumnsWithHash(k) ==
    [id |-> k.id, public_key |-> k.public_key,
     hashed_secret_key |-> k.hashed_secret_key,
     display_secret_key |-> k.display_secret_key,
     last_used_at |-> k.last_used_at, note |-> k.note,
     expires_at |-> k.expires_at]

\* RETURNING id, created_at, public_key, display_secret_key, note,
\* last_used_at, expires_at: the columns every read and update of api_keys
\* lists; hashed_secret_key is in none of the lists.
ApiKeyColumns(k) ==
    [id |-> k.id, public_key |-> k.public_key,
     display_secret_key |-> k.display_secret_key,
     last_used_at |-> k.last_used_at, note |-> k.note,
     expires_at |-> k.expires_at]

\* ORDER BY created_at DESC: identifiers are handed out in creation order.
RECURSIVE NewestFirst(_)
NewestFirst(rows) ==
    IF rows = {} THEN <<>>
    ELSE LET newest == CHOOSE k \in rows : \A j \in rows : j.id <= k.id
         IN  <<newest>> \o NewestFirst(rows \ {newest})

\* ORDER BY expires_at ASC: every order of the rows the database may
\* answer with; rows with equal expires_at come in either order.
SoonestFirst(rows) ==
    {q \in [1..Cardinality(rows) -> rows] :
        /\ \A i, j \in DOMAIN q : i # j => q[i] # q[j]
        /\ \A i, j \in DOMAIN q : i < j => q[i].expires_at <= q[j].expires_at}

\* ApiKeysService.getByProject(projectId)
ApiKeyGetByProjectCall(s0, projectId, f) ==
    WithValue(Query(s0, f, s0.db, Ok),
              NewestFirst({ApiKeyColumns(k) :
                              k \in {a \in s0.db.api_keys : a.project_id = projectId}}))

ApiKeyGetByProject(projectId, f) ==
    ReturnValue("apiKeys.getByProject",
                ApiKeyGetByProjectCall(Start(db, ids, rnd), projectId, f))

\* ApiKeysService.getById(id): the key joined with its project, when that
\* project is not soft-deleted.
ApiKeyGetByIdCall(s0, id, f) ==
    LET rows == {[k |-> k, p |-> p] :
                    k \in {a \in s0.db.api_keys : a.id = id},
                    p \in {q \in s0.db.projects : q.deleted_at = Null}}
        joined == {r \in rows : r.k.project_id = r.p.id}
    IN  IF joined = {}
        THEN WithValue(Query(s0, f, s0.db, NotFoundError), <<>>)
        ELSE LET r == CHOOSE x \in joined : TRUE
             IN  WithValue(Query(s0, f, s0.db, Ok),
                    <<[id |-> r.k.id, public_key |-> r.k.public_key,
                       display_secret_key |-> r.k.display_secret_key,
                       last_used_at |-> r.k.last_used_at, note |-> r.k.note,
                       expires_at |-> r.k.expires_at,
                       project_id |-> r.p.id, project_name |-> r.p.name]>>)

ApiKeyGetById(id, f) ==
    ReturnValue("apiKeys.getById", ApiKeyGetByIdCall(Start(db, ids, rnd), id, f))

\* ApiKeysService.create(projectId, {note, expiresAt}) as a function of the
\* state it starts from: the new row's columns with the full secretKey.
ApiKeyCreateCall(s0, projectId, note, expiresAt, clock, f) ==
    LET parsed == ParseExpiresAt(expiresAt, clock)
        secretKey == GenerateApiKey("sk", s0.rnd + 2)
        apiKeyId == GenerateId(s0.ids, "key")
    IN  IF parsed.err # "none"
        THEN WithValue(Reject(s0, BusinessLogicError), <<>>)
        ELSE LET r == Transaction(s0, f,
                        ApiKeyCreateBody(s0, projectId, note, parsed.value, f))
             IN  WithValue(r,
                    <<[id |-> apiKeyId,
                       public_key |-> GenerateApiKey("pk", s0.rnd + 1),
                       display_secret_key |-> DisplaySecretKey(secretKey),
                       note |-> note, expires_at |-> parsed.value,
                       secretKey |-> secretKey]>>)

\* ApiKeysService.create(projectId, {note, expiresAt})
ApiKeyCreate(projectId, note, expiresAt, f) ==
    ReturnValue("apiKeys.create",
                ApiKeyCreateCall(Start(db, ids, rnd), projectId, note, expiresAt,
                                 now, f))

\* The unit of work of regenerate.
ApiKeyRegenerateBody(s, id, expiresAt, parsedExpiresAt, f) ==
    LET apiKeyCheck == {k \in s.db.api_keys : k.id = id}
    IN  IF f = "q1" THEN Throw(s, "DriverError")
        ELSE IF apiKeyCheck = {} THEN Throw(s, "NotFoundError")
        ELSE
        LET existingKey == CHOOSE k \in apiKeyCheck : TRUE
            newExpiresAt == IF expiresAt = Null /\ existingKey.expires_at # Null
                            THEN existingKey.expires_at ELSE parsedExpiresAt
            publicKey == GenerateApiKey("pk", s.rnd + 1)
            secretKey == GenerateApiKey("sk", s.rnd + 2)
            s1 == [s EXCEPT !.rnd = @ + 2]
        IN  IF f = "q2" THEN Throw(s1, "DriverError")
            ELSE [s1 EXCEPT !.db.api_keys =
                    {IF k.id = id
                        THEN [k EXCEPT !.public_key = publicKey,
                                       !.hashed_secret_key = HashSecretKey(secretKey),
                                       !.display_secret_key = DisplaySecretKey(secretKey),
                                       !.expires_at = newExpiresAt]
                        ELSE k : k \in @}]

\* ApiKeysService.regenerate(id, {expiresAt}) as a function of the state it
\* starts from: the updated row's columns with the new full secretKey.
ApiKeyRegenerateCall(s0, id, options, clock, f) ==
    LET expiresAt == DefaultNull(options)
        parsed == ParseExpiresAt(expiresAt, clock)
        secretKey == GenerateApiKey("sk", s0.rnd + 2)
    IN  IF parsed.err # "none"
        THEN WithValue(Reject(s0, BusinessLogicError), <<>>)
        ELSE LET r == Transaction(s0, f,
                        ApiKeyRegenerateBody(s0, id, expiresAt, parsed.value, f))
             IN  WithValue(r,
                    [i \in 1..1 |->
                        [c \in {"id", "public_key", "display_secret_key", "note",
                                "last_used_at", "expires_at", "secretKey"} |->
                            IF c = "secretKey" THEN secretKey
                            ELSE ApiKeyColumns(
                                    CHOOSE k \in r.db.api_keys : k.id = id)[c]]])

\* ApiKeysService.regenerate(id, {expiresAt})
ApiKeyRegenerate(id, options, f) ==
    ReturnValue("apiKeys.regenerate",
                ApiKeyRegenerateCall(Start(db, ids, rnd), id, options, now, f))

\* ApiKeysService.updateExpiration(id, expiresAt): one UPDATE by id.
ApiKeyUpdateExpirationCall(s0, id, expiresAt, clock, f) ==
    LET parsed == ParseExpiresAt(expiresAt, clock)
        newDb == [s0.db EXCEPT !.api_keys =
                    {IF k.id = id THEN [k EXCEPT !.expires_at = parsed.value]
                                  ELSE k : k \in @}]
    IN  IF parsed.err # "none"
        THEN WithValue(Reject(s0, BusinessLogicError), <<>>)
        ELSE IF \A k \in s0.db.api_keys : k.id # id
        THEN WithValue(Query(s0, f, s0.db, NotFoundError), <<>>)
        ELSE WithValue(Query(s0, f, newDb, Ok),
                <<ApiKeyColumns(CHOOSE k \in newDb.api_keys : k.id = id)>>)

ApiKeyUpdateExpiration(id, expiresAt, f) ==
    ReturnValue("apiKeys.updateExpiration",
                ApiKeyUpdateExpirationCall(Start(db, ids, rnd), id, expiresAt, now, f))

\* An updateNote whose UPDATE also sets expires_at to null.
ApiKeyUpdateNoteCallClearingExpiration(s0, id, note, f) ==
    LET newDb == [s0.db EXCEPT !.api_keys =
                    {IF k.id = id THEN [k EXCEPT !.note = note, !.expires_at = Null]
                                  ELSE k : k \in @}]
    IN  IF \A k \in s0.db.api_keys : k.id # id
        THEN WithValue(Query(s0, f, s0.db, NotFoundError), <<>>)
        ELSE WithValue(Query(s0, f, newDb, Ok),
                <<ApiKeyColumns(CHOOSE k \in newDb.api_keys : k.id = id)>>)

\* ApiKeysService.updateNote(id, note): one UPDATE by id.
ApiKeyUpdateNoteCall(s0, id, note, f) ==
    LET newDb == [s0.db EXCEPT !.api_keys =
                    {IF k.id = id THEN [k EXCEPT !.note = note] ELSE k : k \in @}]
    IN  IF \A k \in s0.db.api_keys : k.id # id
        THEN WithValue(Query(s0, f, s0.db, NotFoundError), <<>>)
        ELSE WithValue(Query(s0, f, newDb, Ok),
                <<ApiKeyColumns(CHOOSE k \in newDb.api_keys : k.id = id)>>)

ApiKeyUpdateNote(id, note, f) ==
    ReturnValue("apiKeys.updateNote",
                ApiKeyUpdateNoteCall(Start(db, ids, rnd), id, note, f))

\* ApiKeysService.delete(id): one DELETE by id.
ApiKeyDeleteCall(s0, id, f) ==
    IF \A k \in s0.db.api_keys : k.id # id
    THEN WithValue(Query(s0, f, s0.db, NotFoundError), <<>>)
    ELSE WithValue(Query(s0, f,
                         [s0.db EXCEPT !.api_keys = {k \in @ : k.id # id}], Ok),
                   <<>>)

ApiKeyDelete(id, f) ==
    ReturnValue("apiKeys.delete", ApiKeyDeleteCall(Start(db, ids, rnd), id, f))

\* The WHERE clause with <= for <: a key that expires now is taken too.
ExpiredOrDue(d, clock) ==
    {k \in d.api_keys : k.expires_at # Null /\ k.expires_at <= clock}

\* WHERE expires_at IS NOT NULL AND expires_at < CURRENT_TIMESTAMP
Expired(d, clock) ==
    {k \in d.api_keys : k.expires_at # Null /\ k.expires_at < clock}

\* The columns getExpired selects.
ExpiredColumns(k) ==
    [id |-> k.id, public_key |-> k.public_key,
     display_secret_key |-> k.display_secret_key,
     last_used_at |-> k.last_used_at, note |-> k.note,
     expires_at |-> k.expires_at, project_id |-> k.project_id]

\* ApiKeysService.getExpired(): order is one of the orders the database may
\* answer with.
ApiKeyGetExpiredCall(s0, clock, order, f) ==
    WithValue(Query(s0, f, s0.db, Ok), order)

ApiKeyGetExpired(f) ==
    \E order \in SoonestFirst({ExpiredColumns(k) : k \in Expired(db, now)}) :
        ReturnValue("apiKeys.getExpired",
                    ApiKeyGetExpiredCall(Start(db, ids, rnd), now, order, f))

\* ApiKeysService.cleanupExpired(): resolves to the number of rows deleted.
ApiKeyCleanupExpiredCall(s0, clock, f) ==
    WithValue(Query(s0, f,
                    [s0.db EXCEPT !.api_keys = @ \ Expired(s0.db, clock)], Ok),
              <<[count |-> Cardinality(Expired(s0.db, clock))]>>)

ApiKeyCleanupExpired(f) ==
    ReturnValue("apiKeys.cleanupExpired",
                ApiKeyCleanupExpiredCall(Start(db, ids, rnd), now, f))

\* A key that never expires: the expiration test with its answer fixed.
NeverExpired(apiKey, clock) == FALSE

\* apiKey.expires_at && new Date(apiKey.expires_at) < new Date()
HasExpired(apiKey, clock) ==
    apiKey.expires_at # Null /\ apiKey.expires_at < clock

\* A verify that stamps last_used_at as soon as the secret matches, before
\* it looks at the project.
ApiKeyVerifyCallStampingFirst(s0, publicKey, secretKey, clock, f) ==
    LET found == {k \in s0.db.api_keys : k.public_key = publicKey}
        stamped == [s0.db EXCEPT !.api_keys =
                      {IF k.public_key = publicKey
                          THEN [k EXCEPT !.last_used_at = clock] ELSE k : k \in @}]
        noMatch == [db |-> s0.db, ids |-> s0.ids, rnd |-> s0.rnd,
                    out |-> Ok, value |-> <<>>]
    IN  IF publicKey = NoKey \/ secretKey = NoKey \/ found = {} THEN noMatch
        ELSE
        LET apiKey == CHOOSE k \in found : TRUE
            project == {p \in s0.db.projects :
                          p.id = apiKey.project_id /\ p.deleted_at = Null}
        IN  IF HasExpired(apiKey, clock) THEN noMatch
            ELSE IF HashSecretKey(secretKey) # apiKey.hashed_secret_key THEN noMatch
            ELSE IF project = {} THEN [noMatch EXCEPT !.db = stamped]
            ELSE [noMatch EXCEPT
                    !.db = stamped,
                    !.value = LET p == CHOOSE x \in project : TRUE
                              IN  <<[id |-> p.id, org_id |-> p.org_id,
                                     name |-> p.name]>>]

\* ApiKeysService.verify(publicKey, secretKey): three statements outside any
\* transaction (f: the one the driver fails); resolves to the project
\* without deleted_at, or to null.
ApiKeyVerifyCall(s0, publicKey, secretKey, clock, f) ==
    LET found == {k \in s0.db.api_keys : k.public_key = publicKey}
        noMatch == [db |-> s0.db, ids |-> s0.ids, rnd |-> s0.rnd,
                    out |-> Ok, value |-> <<>>]
        failed == [db |-> s0.db, ids |-> s0.ids, rnd |-> s0.rnd,
                   out |-> DatabaseError("DriverError"), value |-> <<>>]
    IN  IF publicKey = NoKey \/ secretKey = NoKey THEN noMatch
        ELSE IF f = "q1" THEN failed
        ELSE IF found = {} THEN noMatch
        ELSE
        LET apiKey == CHOOSE k \in found : TRUE
            project == {p \in s0.db.projects : p.id = apiKey.project_id}
        IN  IF HasExpired(apiKey, clock) THEN noMatch
            ELSE IF HashSecretKey(secretKey) # apiKey.hashed_secret_key THEN noMatch
            ELSE IF f = "q2" THEN failed
            ELSE IF project = {} THEN noMatch
            ELSE IF (CHOOSE p \in project : TRUE).deleted_at # Null THEN noMatch
            ELSE IF f = "q3" THEN failed
            ELSE [db |-> [s0.db EXCEPT !.api_keys =
                            {IF k.public_key = publicKey
                                THEN [k EXCEPT !.last_used_at = clock]
                                ELSE k : k \in @}],
                  ids |-> s0.ids, rnd |-> s0.rnd, out |-> Ok,
                  value |-> LET p == CHOOSE x \in project : TRUE
                            IN  <<[id |-> p.id, org_id |-> p.org_id,
                                   name |-> p.name]>>]

ApiKeyVerify(publicKey, secretKey, f) ==
    ReturnValue("apiKeys.verify",
                ApiKeyVerifyCall(Start(db, ids, rnd), publicKey, secretKey, now, f))

\* Time passes between calls.
Tick ==
    /\ now < MaxClock
    /\ now' = now + 1
    /\ UNCHANGED <<db, ids, rnd, last, connections>>

\* ------------------------------------------------- addBatchMembers
\* error.message of what addMember throws to the batch loop: transaction()
\* rethrows everything under one message; the role check throws before it.
Message(out) ==
    IF out.kind = "DatabaseError" THEN "Error al ejecutar transacción"
    ELSE "Rol inválido. Debe ser OWNER, ADMIN, MEMBER o VIEWER"

\* The body of the loop for one entry: s carries the tables and the result
\* built so far, f is the statement of this entry's addMember the driver
\* fails.  (A one-element set names a value that is used more than once.)
AddBatchStep(s, projectId, member, f) ==
    IF member.userId = Null
    THEN [s EXCEPT !.errors = Append(@, [userId |-> Unknown,
                                         error |-> "ID de usuario requerido"])]
    ELSE CHOOSE t \in
            {IF r.out.kind = "ok"
                THEN [db |-> r.db, ids |-> r.ids, rnd |-> r.rnd,
                      success |-> Append(s.success,
                         [project_id |-> projectId, user_id |-> member.userId,
                          role |-> IF member.role = Undefined THEN "VIEWER"
                                   ELSE member.role]),
                      errors |-> s.errors]
                ELSE [db |-> r.db, ids |-> r.ids, rnd |-> r.rnd,
                      success |-> s.success,
                      errors |-> Append(s.errors, [userId |-> member.userId,
                                                   error |-> Message(r.out)])] :
             r \in {ProjAddMemberCall(Start(s.db, s.ids, s.rnd), projectId,
                                      member.userId, member.role, f)}} : TRUE

\* for (const member of members) { ... } from entry i on; bad is the position
\* of the entry whose INSERT INTO project_memberships the driver fails
\* (0: none).
RECURSIVE AddBatchLoop(_, _, _, _, _)
AddBatchLoop(s, projectId, members, bad, i) ==
    IF i > Len(members) THEN s
    ELSE CHOOSE t \in
            {AddBatchLoop(n, projectId, members, bad, i + 1) :
             n \in {AddBatchStep(s, projectId, members[i],
                                 IF bad = i THEN "q6" ELSE "none")}} : TRUE

\* The batch as one all-or-nothing unit: an entry that fails undoes the
\* entries written before it, which are still reported in success.
AddBatchRunAtomic(s0, projectId, members, bad) ==
    CHOOSE t \in
        {IF r.errors = <<>> THEN r ELSE [r EXCEPT !.db = s0.db] :
         r \in {AddBatchLoop([db |-> s0.db, ids |-> s0.ids, rnd |-> s0.rnd,
                              success |-> <<>>, errors |-> <<>>],
                             projectId, members, bad, 1)}} : TRUE

\* The loop over the whole array, from an empty result.
AddBatchRun(s0, projectId, members, bad) ==
    AddBatchLoop([db |-> s0.db, ids |-> s0.ids, rnd |-> s0.rnd,
                  success |-> <<>>, errors |-> <<>>],
                 projectId, members, bad, 1)

\* ProjectMembershipsService.addBatchMembers(projectId, members), as a
\* function of the state s0 it is called in; f fails the query that looks
\* the project up.
AddBatchMembersCall(s0, projectId, members, bad, f) ==
    IF Len(members) = 0
    THEN [db |-> s0.db, ids |-> s0.ids, rnd |-> s0.rnd, out |-> BusinessLogicError,
          success |-> <<>>, errors |-> <<>>]
    ELSE IF f = "query"
    THEN [db |-> s0.db, ids |-> s0.ids, rnd |-> s0.rnd,
          out |-> DatabaseError("DriverError"), success |-> <<>>, errors |-> <<>>]
    ELSE IF LiveProjects(s0.db, projectId) = {}
    THEN [db |-> s0.db, ids |-> s0.ids, rnd |-> s0.rnd, out |-> NotFoundError,
          success |-> <<>>, errors |-> <<>>]
    ELSE CHOOSE t \in
            {[db |-> run.db, ids |-> run.ids, rnd |-> run.rnd, out |-> Ok,
              success |-> run.success, errors |-> run.errors] :
             run \in {AddBatchRun(s0, projectId, members, bad)}} : TRUE

AddBatchMembers(projectId, members, bad, f) ==
    \E res \in {AddBatchMembersCall(Start(db, ids, rnd), projectId, members, bad, f)} :
        /\ db' = res.db
        /\ ids' = res.ids
        /\ rnd' = res.rnd
        /\ UNCHANGED <<now, connections>>
        /\ last' = [op |-> "projectMemberships.addBatchMembers",
                    kind |-> res.out.kind, cause |-> res.out.cause,
                    members |-> members,
                    success |-> res.success, errors |-> res.errors,
                    value |-> <<>>]

\* ------------------------------------------------------------------- Init
\* The service starts on the database of a running Langfuse installation:
\* its n users exist and have signed in; nothing else has been created yet.
Installed(n) ==
    [db |-> [users |-> {[id |-> i, email |-> i] : i \in 1..n},
             accounts |-> 1..n, sessions |-> 1..n,
             organizations |-> {}, organization_memberships |-> {},
             projects |-> {}, project_memberships |-> {}, api_keys |-> {}],
     ids |-> [p \in Prefixes |-> IF p = "usr" THEN n ELSE 0],
     rnd |-> 0]

NoCall ==
    [op |-> "none", kind |-> "none", cause |-> "none",
     members |-> <<>>, success |-> <<>>, errors |-> <<>>, value |-> <<>>]

Clients == 1..MaxClients

\* A caller that is not inside transaction(): no statement issued, nothing
\* written, no snapshot.
Idle ==
    [pc |-> "idle", op |-> "none", id |-> Null, userId |-> Null, role |-> "none",
     wrote |-> FALSE, snapshot |-> Installed(0).db, log |-> <<>>, err |-> "none",
     calls |-> 0]

\* Nobody is inside transaction(); PostgreSQL's default isolation.
Quiet ==
    /\ clients = [c \in Clients |-> Idle]
    /\ pool = 0
    /\ isolation = "read committed"

Init ==
    /\ db = Installed(MaxUsers).db
    /\ ids = Installed(MaxUsers).ids
    /\ rnd = Installed(MaxUsers).rnd
    /\ now = 1
    /\ last = NoCall
    /\ Quiet

\* An installation after OrganizationsService.create({name: 'Acme', userId: 1})
\* and ProjectsService.create({name: 'Web', orgId: 1}).
WithProject ==
    ProjCreateBody(
        OrgCreateBody(Start(Installed(ProjectUsers).db, Installed(ProjectUsers).ids,
                            Installed(ProjectUsers).rnd),
                      "Acme", 1, "none"),
        "Web", 1, "none")

InitWithProject ==
    /\ db = WithProject.db
    /\ ids = WithProject.ids
    /\ rnd = WithProject.rnd
    /\ now = 1
    /\ last = NoCall
    /\ Quiet

\* ----------------------------------------------------------------- inputs
\* Roles a caller passes, and one that is in no validRoles list.
OrgRoleInputs == {"OWNER", "ADMIN", "VIEWER"}
ProjectRoleInputs == {"OWNER", "VIEWER"}
InvalidRole == "SUPERUSER"

\* The statement the driver fails on in a unit of work of n statements.
FailPoints(n) ==
    {"none", "BEGIN", "COMMIT"} \cup
    {<<"q1", "q2", "q3", "q4", "q5", "q6", "q7">>[k] : k \in 1..n}
QueryFailPoints == {"none", "query"}

\* The identifiers handed out so far.
Issued(prefix) == 1..ids[prefix]

\* The expiresAt option: left out, no date, not in the future, in the future.
ExpiresAtInputs == {Null, InvalidDate, now, now + 1}

\* The entries of a members array: with or without a userId, and one whose
\* role is in no validRoles list (the role is checked before the userId is
\* looked up).
MemberInputs ==
    [userId : {Null} \cup IdInputs("usr"), role : {"OWNER"}]
        \cup {[userId |-> 1, role |-> InvalidRole]}

\* generateId and generateApiKey are drawn from at most this often.
Budget(start, extra) ==
    /\ Drawn(ids') <= Drawn(start.ids) + extra
    /\ rnd' <= 2 * MaxKeyPairs

\* ------------------------------------------------------------------- Next
\* Calls that are turned away before any statement runs; the arguments the
\* validation does not look at are fixed.
Rejected ==
    \/ \E name \in {"", " "} : OrgCreate(name, 1, "none")
    \/ OrgCreate("Acme", Null, "none")
    \/ OrgAddMember(1, Null, "VIEWER", "none")
    \/ OrgAddMember(1, 1, InvalidRole, "none")
    \/ \E role \in {Undefined, InvalidRole} : OrgUpdateMember(1, 1, role, "none")
    \/ \E name \in {"", " "} : ProjCreate(name, 1, "none")
    \/ ProjCreate("Web", Null, "none")
    \/ ProjAddMember(1, Null, "VIEWER", "none")
    \/ ProjAddMember(1, 1, InvalidRole, "none")
    \/ \E role \in {Undefined, InvalidRole} : ProjUpdateMember(1, 1, role, "none")

\* The membership engine, every statement succeeding.
Next ==
    \/ Rejected
    \/ \E id \in IdInputs("usr") : UserDelete(id, "none")
    \/ \E userId \in IdInputs("usr") :
          OrgCreate("Acme", userId, "none") /\ Budget(Installed(MaxUsers), MaxIds)
    \/ \E orgId \in IdInputs("org"), userId \in IdInputs("usr"),
          role \in OrgRoleInputs \cup {Undefined} :
          OrgAddMember(orgId, userId, role, "none") /\ Budget(Installed(MaxUsers), MaxIds)
    \/ \E orgId \in IdInputs("org"), userId \in IdInputs("usr"),
          role \in OrgRoleInputs :
          OrgUpdateMember(orgId, userId, role, "none")
    \/ \E orgId \in IdInputs("org"), userId \in IdInputs("usr") :
          OrgRemoveMember(orgId, userId, "none")
    \/ \E orgId \in IdInputs("org") :
          ProjCreate("Web", orgId, "none") /\ Budget(Installed(MaxUsers), MaxIds)
    \/ \E id \in IdInputs("prj") : ProjDelete(id, "none")
    \/ \E projectId \in IdInputs("prj"), userId \in IdInputs("usr"),
          role \in ProjectRoleInputs \cup {Undefined} :
          ProjAddMember(projectId, userId, role, "none") /\ Budget(Installed(MaxUsers), MaxIds)
    \/ \E projectId \in IdInputs("prj"), userId \in IdInputs("usr"),
          role \in ProjectRoleInputs :
          ProjUpdateMember(projectId, userId, role, "none")
    \/ \E projectId \in IdInputs("prj"), userId \in IdInputs("usr") :
          ProjRemoveMember(projectId, userId, "none")

Spec == Init /\ [][Next]_vars

\* The transactional operations with a driver that can fail any statement.
NextFaults ==
    \/ \E email \in IdInputs("usr"), f \in FailPoints(2) :
          UserCreate(email, f) /\ Budget(WithProject, MaxDraws)
    \/ \E id \in Issued("usr"), f \in FailPoints(4) : UserDelete(id, f)
    \/ \E userId \in Issued("usr"), f \in FailPoints(3) :
          OrgCreate("Acme", userId, f) /\ Budget(WithProject, MaxDraws)
    \/ \E orgId \in Issued("org"), userId \in Issued("usr"),
          role \in {"OWNER", "VIEWER"}, f \in FailPoints(4) :
          OrgAddMember(orgId, userId, role, f) /\ Budget(WithProject, MaxDraws)
    \/ \E orgId \in Issued("org"), userId \in Issued("usr"),
          role \in {"OWNER", "VIEWER"}, f \in FailPoints(3) \cup QueryFailPoints :
          OrgUpdateMember(orgId, userId, role, f)
    \/ \E orgId \in Issued("org"), userId \in Issued("usr"),
          f \in FailPoints(4) :
          OrgRemoveMember(orgId, userId, f)
    \/ \E orgId \in Issued("org"), f \in FailPoints(3) :
          ProjCreate("Web", orgId, f) /\ Budget(WithProject, MaxDraws)
    \/ \E projectId \in Issued("prj"), userId \in Issued("usr"),
          role \in ProjectRoleInputs, f \in FailPoints(7) :
          ProjAddMember(projectId, userId, role, f) /\ Budget(WithProject, MaxDraws)
    \/ \E projectId \in Issued("prj"), userId \in Issued("usr"),
          role \in ProjectRoleInputs, f \in FailPoints(4) :
          ProjUpdateMember(projectId, userId, role, f)
    \/ \E projectId \in Issued("prj"), userId \in Issued("usr"),
          f \in FailPoints(3) :
          ProjRemoveMember(projectId, userId, f)
    \/ \E projectId \in Issued("prj"), expiresAt \in {Null, now + 1},
          f \in FailPoints(2) :
          ApiKeyCreate(projectId, Null, expiresAt, f) /\ Budget(WithProject, MaxDraws)
    \/ \E id \in Issued("key"),
          options \in {[given |-> FALSE, expiresAt |-> Null],
                       [given |-> TRUE, expiresAt |-> now + 1]},
          f \in FailPoints(2) :
          ApiKeyRegenerate(id, options, f) /\ Budget(WithProject, MaxDraws)

SpecFaults == InitWithProject /\ [][NextFaults]_vars

\* Batches of members, on a project that can also lose members or be deleted.
NextBatch ==
    \/ \E projectId \in IdInputs("prj"), n \in 1..MaxBatch :
          \E members \in [1..n -> MemberInputs], bad \in 0..n :
              AddBatchMembers(projectId, members, bad, "none")
                  /\ Budget(WithProject, MaxDraws)
    \/ AddBatchMembers(1, <<>>, 0, "none")
    \/ AddBatchMembers(1, <<[userId |-> 1, role |-> "OWNER"]>>, 0, "query")
    \/ \E projectId \in IdInputs("prj"), userId \in IdInputs("usr") :
          ProjRemoveMember(projectId, userId, "none")
    \/ \E id \in IdInputs("prj") : ProjDelete(id, "none")
    \/ \E projectId \in IdInputs("prj"), f \in {"none", "q1", "q2"} :
          ProjGetByProject(projectId, f)

SpecBatch == InitWithProject /\ [][NextBatch]_vars

\* The key strings a caller may present: the empty string, every string of
\* that prefix drawn so far, and one that was never drawn.
PublicKeyInputs ==
    {NoKey} \cup {GenerateApiKey("pk", n) : n \in {i \in 1..(rnd + 1) : i % 2 = 1}}
SecretKeyInputs ==
    {NoKey} \cup {GenerateApiKey("sk", n) : n \in {i \in 2..(rnd + 2) : i % 2 = 0}}

\* The expiresAt values of the key lifecycle: none, '', no date, and the one date
\* that is in the future at first and in the past once the clock has run.
DateInputs == {Null, EmptyString, InvalidDate, MaxClock - 1}

\* The options object of regenerate: without expiresAt, or with one.
RegenerateOptions ==
    {[given |-> FALSE, expiresAt |-> Null]}
        \cup {[given |-> TRUE, expiresAt |-> e] : e \in DateInputs}

\* generateApiKey draws at most MaxKeyPairs pairs, the project's own included.
KeyBudget == rnd' <= 2 * MaxKeyPairs

\* The API keys of a project over time.
NextKeys ==
    \/ \E projectId \in IdInputs("prj"), expiresAt \in DateInputs :
          ApiKeyCreate(projectId, Null, expiresAt, "none") /\ KeyBudget
    \/ \E id \in IdInputs("key"), options \in RegenerateOptions :
          ApiKeyRegenerate(id, options, "none") /\ KeyBudget
    \/ \E id \in IdInputs("key"), expiresAt \in DateInputs :
          ApiKeyUpdateExpiration(id, expiresAt, "none")
    \/ \E id \in IdInputs("key") : ApiKeyUpdateNote(id, 1, "none")
    \/ \E id \in IdInputs("key") : ApiKeyDelete(id, "none")
    \/ \E id \in IdInputs("key") : ApiKeyGetById(id, "none")
    \/ \E projectId \in IdInputs("prj") : ApiKeyGetByProject(projectId, "none")
    \/ ApiKeyGetExpired("none")
    \/ ApiKeyCleanupExpired("none")
    \/ \E publicKey \in PublicKeyInputs, secretKey \in SecretKeyInputs :
          ApiKeyVerify(publicKey, secretKey, "none")
    \/ \E f \in {"q1", "q2", "q3"} :
          ApiKeyVerify(GenerateApiKey("pk", 1), GenerateApiKey("sk", 2), f)
    \/ \E id \in IdInputs("prj") : ProjDelete(id, "none")
    \/ Tick

SpecKeys == InitWithProject /\ [][NextKeys]_vars


\* ------------------------------ transaction(), one statement at a time
\* The calls below run as transaction() runs them: pool.connect(), BEGIN, the
\* statements of the callback, COMMIT or ROLLBACK, client.release(), and
\* other callers take their steps in between.  The driver can fail any
\* statement.  The service sends a plain BEGIN, so the server decides how a
\* transaction is isolated: "read committed" is PostgreSQL's default,
\* "serializable" a server configured with that default, and "row lock" read
\* committed with the first SELECT of the check taking a lock on the
\* membership set (FOR UPDATE) until the transaction ends.
Isolations == {"read committed", "serializable", "row lock"}

\* An installation after organizations.create by user 1, addMember of user 2
\* as OWNER and of user 3 as VIEWER, projects.create, and
\* projectMemberships.addMember of the same three with the same roles.
Staffed ==
    LET s1 == OrgCreateBody(Start(Installed(MaxUsers).db, Installed(MaxUsers).ids,
                                  Installed(MaxUsers).rnd), "Acme", 1, "none")
        s2 == OrgAddMemberBody(s1, 1, 2, "OWNER", "none")
        s3 == OrgAddMemberBody(s2, 1, 3, "VIEWER", "none")
        s4 == ProjCreateBody(s3, "Web", 1, "none")
        s5 == ProjAddMemberBody(s4, 1, 1, "OWNER", "none")
        s6 == ProjAddMemberBody(s5, 1, 2, "OWNER", "none")
    IN  ProjAddMemberBody(s6, 1, 3, "VIEWER", "none")

InitConcurrent ==
    /\ db = Staffed.db
    /\ ids = Staffed.ids
    /\ rnd = Staffed.rnd
    /\ now = 1
    /\ last = NoCall
    /\ clients = [c \in Clients |-> Idle]
    /\ pool = 0
    /\ isolation \in Isolations

OnOrganization(t) == t.op = "org.updateMember"

\* ... WHERE org_id = $1 AND user_id = $2 / WHERE project_id = $1 AND user_id = $2
TargetRows(t, d) ==
    IF OnOrganization(t) THEN OrgMembershipsOf(d, t.id, t.userId)
    ELSE ProjectMembershipsOf(d, t.id, t.userId)

\* SELECT COUNT(*) ... AND role = 'OWNER'
OwnersCount(t, d) ==
    IF OnOrganization(t) THEN OrgOwnersCount(d, t.id)
    ELSE ProjectOwnersCount(d, t.id)

\* The rows the owner count ranges over.
MembershipSet(t, d) ==
    IF OnOrganization(t)
    THEN {m \in d.organization_memberships : m.org_id = t.id}
    ELSE {m \in d.project_memberships : m.project_id = t.id}

\* The UPDATE of updateMember, the DELETE of removeMember.
Effect(t, d) ==
    IF OnOrganization(t) THEN OrgSetRole(d, t.id, t.userId, t.role)
    ELSE [d EXCEPT !.project_memberships = @ \ ProjectMembershipsOf(d, t.id, t.userId)]

\* What a statement of the transaction reads: what is committed when the
\* statement runs (or, serializable, when the transaction began), with the
\* transaction's own write.
Visible(t) ==
    LET base == IF isolation = "serializable" THEN t.snapshot ELSE db
    IN  IF t.wrote THEN Effect(t, base) ELSE base

Logged(t, statement) == \E i \in 1..Len(t.log) : t.log[i] = statement

\* The statement ran and the callback goes on.
Go(t, statement, pc) == [t EXCEPT !.log = Append(@, statement), !.pc = pc]

\* The statement or the check after it threw: the catch block is next.
Raise(t, statement, kind) ==
    [t EXCEPT !.log = Append(@, statement), !.err = kind, !.pc = "ROLLBACK"]

\* d holds the lock on the membership set that t's first SELECT asks for.
HoldsLock(d, t) ==
    /\ d.pc \in {"q2", "q3", "COMMIT", "ROLLBACK"}
    /\ Logged(d, "SELECT role")
    /\ OnOrganization(d) = OnOrganization(t)
    /\ d.id = t.id

\* d has written the row t is about to write and has not ended its
\* transaction: t's statement waits.
HoldsRow(d, t) ==
    /\ d.wrote
    /\ OnOrganization(d) = OnOrganization(t)
    /\ d.id = t.id
    /\ d.userId = t.userId

\* A caller enters updateMember (role not OWNER) or removeMember.
TxCall(c, op, id, userId, role) ==
    /\ clients[c].pc = "idle"
    /\ clients[c].calls < MaxCalls
    /\ clients' = [clients EXCEPT ![c] =
          [Idle EXCEPT !.pc = "connect", !.op = op, !.id = id,
                       !.userId = userId, !.role = role,
                       !.calls = clients[c].calls + 1]]
    /\ UNCHANGED <<db, ids, rnd, now, last, pool, isolation>>

\* const client = await this.pool.connect()
TxConnect(c) ==
    /\ clients[c].pc = "connect"
    /\ pool' = pool + 1
    /\ clients' = [clients EXCEPT ![c] = Go(@, "connect", "BEGIN")]
    /\ UNCHANGED <<db, ids, rnd, now, last, isolation>>

\* await client.query('BEGIN')
TxBegin(c, fails) ==
    /\ clients[c].pc = "BEGIN"
    /\ clients' = [clients EXCEPT ![c] =
          IF fails THEN Raise(@, "BEGIN", "DriverError")
          ELSE [Go(@, "BEGIN", "q1") EXCEPT
                   !.snapshot = IF isolation = "serializable" THEN db ELSE @]]
    /\ UNCHANGED <<db, ids, rnd, now, last, pool, isolation>>

\* SELECT role FROM ..._memberships WHERE ... ; no row: NotFoundError.
TxSelectRole(c, fails) ==
    /\ clients[c].pc = "q1"
    /\ isolation = "row lock" =>
          \A d \in Clients \ {c} : ~HoldsLock(clients[d], clients[c])
    /\ clients' = [clients EXCEPT ![c] =
          LET currentRole == TargetRows(@, Visible(@))
          IN  IF fails THEN Raise(@, "SELECT role", "DriverError")
              ELSE IF currentRole = {} THEN Raise(@, "SELECT role", "NotFoundError")
              ELSE IF (CHOOSE m \in currentRole : TRUE).role = "OWNER"
              THEN Go(@, "SELECT role", "q2")
              ELSE Go(@, "SELECT role", "q3")]
    /\ UNCHANGED <<db, ids, rnd, now, last, pool, isolation>>

\* The owner count that never refuses.
TxCountOwnersUnchecked(c, fails) ==
    /\ clients[c].pc = "q2"
    /\ clients' = [clients EXCEPT ![c] =
          IF fails THEN Raise(@, "SELECT COUNT", "DriverError")
          ELSE Go(@, "SELECT COUNT", "q3")]
    /\ UNCHANGED <<db, ids, rnd, now, last, pool, isolation>>

\* SELECT COUNT(*) ... role = 'OWNER'; count <= 1: BusinessLogicError.
TxCountOwners(c, fails) ==
    /\ clients[c].pc = "q2"
    /\ clients' = [clients EXCEPT ![c] =
          IF fails THEN Raise(@, "SELECT COUNT", "DriverError")
          ELSE IF OwnersCount(@, Visible(@)) <= 1
          THEN Raise(@, "SELECT COUNT", "BusinessLogicError")
          ELSE Go(@, "SELECT COUNT", "q3")]
    /\ UNCHANGED <<db, ids, rnd, now, last, pool, isolation>>

\* UPDATE ... SET role / DELETE FROM ... RETURNING; no row: NotFoundError.
\* The statement waits while another transaction holds the row; serializable,
\* it fails when the row was changed after the snapshot was taken.
TxWrite(c, fails) ==
    /\ clients[c].pc = "q3"
    /\ \A d \in Clients \ {c} : ~HoldsRow(clients[d], clients[c])
    /\ clients' = [clients EXCEPT ![c] =
          LET statement == IF OnOrganization(@) THEN "UPDATE" ELSE "DELETE"
          IN  IF fails THEN Raise(@, statement, "DriverError")
              ELSE IF isolation = "serializable"
                      /\ TargetRows(@, db) # TargetRows(@, @.snapshot)
              THEN Raise(@, statement, "DriverError")
              ELSE IF TargetRows(@, Visible(@)) = {}
              THEN Raise(@, statement, "NotFoundError")
              ELSE [Go(@, statement, "COMMIT") EXCEPT !.wrote = TRUE]]
    /\ UNCHANGED <<db, ids, rnd, now, last, pool, isolation>>

\* await client.query('COMMIT').  Serializable, the server refuses the
\* commit when the rows the transaction counted were changed by a
\* transaction that committed after the snapshot was taken.
TxCommit(c, fails) ==
    /\ clients[c].pc = "COMMIT"
    /\ \E t \in {clients[c]} :
          IF fails \/ (isolation = "serializable"
                       /\ MembershipSet(t, db) # MembershipSet(t, t.snapshot))
          THEN /\ clients' = [clients EXCEPT ![c] = Raise(t, "COMMIT", "DriverError")]
               /\ UNCHANGED db
          ELSE /\ clients' = [clients EXCEPT ![c] =
                     [Go(t, "COMMIT", "release") EXCEPT !.wrote = FALSE]]
               /\ db' = Effect(t, db)
    /\ UNCHANGED <<ids, rnd, now, last, pool, isolation>>

\* The catch block without the finally block behind it: when ROLLBACK throws,
\* the call is over.
TxRollbackNoFinally(c, fails) ==
    /\ clients[c].pc = "ROLLBACK"
    /\ clients' = [clients EXCEPT ![c] =
          IF fails
          THEN [@ EXCEPT !.log = Append(@, "ROLLBACK"), !.wrote = FALSE,
                         !.err = "RollbackFailed", !.pc = "idle"]
          ELSE [Go(@, "ROLLBACK", "release") EXCEPT !.wrote = FALSE]]
    /\ UNCHANGED <<db, ids, rnd, now, last, pool, isolation>>

\* catch (error) { await client.query('ROLLBACK'); ... throw new DatabaseError }
\* When ROLLBACK itself throws, that error leaves the catch block in place of
\* the DatabaseError; the server drops what the transaction wrote either way.
TxRollback(c, fails) ==
    /\ clients[c].pc = "ROLLBACK"
    /\ clients' = [clients EXCEPT ![c] =
          [Go(@, "ROLLBACK", "release") EXCEPT
              !.wrote = FALSE,
              !.err = IF fails THEN "RollbackFailed" ELSE @]]
    /\ UNCHANGED <<db, ids, rnd, now, last, pool, isolation>>

\* What the caller of transaction() gets.
Outcome(t) ==
    IF t.err = "none" THEN Ok
    ELSE IF t.err = "RollbackFailed" THEN [kind |-> "DriverError", cause |-> "none"]
    ELSE DatabaseError(t.err)

\* finally { client.release() }, and the call returns or throws.
TxRelease(c) ==
    /\ clients[c].pc = "release"
    /\ pool' = pool - 1
    /\ clients' = [clients EXCEPT ![c] = Go(@, "release", "idle")]
    /\ last' = [op |-> clients[c].op, kind |-> Outcome(clients[c]).kind,
                cause |-> Outcome(clients[c]).cause,
                members |-> <<>>, success |-> <<>>, errors |-> <<>>,
                value |-> <<>>]
    /\ UNCHANGED <<db, ids, rnd, now, isolation>>

\* Concurrent demotions in organization 1 and removals from project 1.
NextConcurrent ==
    \/ \E c \in Clients, userId \in Issued("usr") :
          TxCall(c, "org.updateMember", 1, userId, "VIEWER")
    \/ \E c \in Clients, userId \in Issued("usr") :
          TxCall(c, "projectMemberships.removeMember", 1, userId, "none")
    \/ \E c \in Clients : TxConnect(c)
    \/ \E c \in Clients, fails \in BOOLEAN : TxBegin(c, fails)
    \/ \E c \in Clients, fails \in BOOLEAN : TxSelectRole(c, fails)
    \/ \E c \in Clients, fails \in BOOLEAN : TxCountOwners(c, fails)
    \/ \E c \in Clients, fails \in BOOLEAN : TxWrite(c, fails)
    \/ \E c \in Clients, fails \in BOOLEAN : TxCommit(c, fails)
    \/ \E c \in Clients, fails \in BOOLEAN : TxRollback(c, fails)
    \/ \E c \in Clients : TxRelease(c)

SpecConcurrent == InitConcurrent /\ [][NextConcurrent]_vars


\* ---------------------- units of work interleaved, read committed
\* addMember, removeMember and delete as the server runs them when two
\* callers are inside transaction() at once: every statement reads what is
\* committed when it runs together with what its own transaction wrote, the
\* transaction's writes become visible to others at COMMIT, and the tables
\* have no constraint of their own.  The driver does not fail here.
NoRows == Installed(0).db

\* An installation after organizations.create by user 1, addMember of user
\* 2 as VIEWER and two projects.create; user 3 is a member of nothing.
TwoProjects ==
    LET s1 == OrgCreateBody(Start(Installed(MaxUsers).db, Installed(MaxUsers).ids,
                                  Installed(MaxUsers).rnd), "Acme", 1, "none")
        s2 == OrgAddMemberBody(s1, 1, 2, "VIEWER", "none")
        s3 == ProjCreateBody(s2, "Web", 1, "none")
    IN  ProjCreateBody(s3, "Web", 1, "none")

\* A caller outside transaction(): nothing inserted, nothing deleted.
Resting ==
    [pc |-> "idle", op |-> "none", a |-> Null, userId |-> Null, role |-> "none",
     orgId |-> Null, orgMembershipId |-> Null, ins |-> NoRows, del |-> NoRows,
     err |-> "none", calls |-> 0]

InitRaces ==
    /\ db = TwoProjects.db
    /\ ids = TwoProjects.ids
    /\ rnd = TwoProjects.rnd
    /\ now = 1
    /\ last = NoCall
    /\ clients = [c \in Clients |-> Resting]
    /\ pool = 0
    /\ isolation = "read committed"

\* The tables as a statement of the transaction sees them.
Seen(t) == [table \in DOMAIN db |-> (db[table] \ t.del[table]) \cup t.ins[table]]

Proceed(t, pc) == [t EXCEPT !.pc = pc]

\* throw inside the callback: the catch block rolls back.
Abort(t, kind) == [t EXCEPT !.err = kind, !.pc = "ROLLBACK"]

\* INSERT INTO table: visible to the transaction only, until COMMIT.
Inserting(t, table, row) == [t EXCEPT !.ins[table] = @ \cup {row}]

\* DELETE FROM table of the rows the statement found.
Deleting(t, table, rows) ==
    [t EXCEPT !.del[table] = @ \cup (rows \cap db[table]),
              !.ins[table] = @ \ rows]

\* A DELETE waits while another transaction that has not ended has deleted
\* one of its rows.
RowsFree(c, table, rows) ==
    \A d \in Clients \ {c} : clients[d].del[table] \cap rows = {}

\* A caller enters the transaction of one of the four operations: the
\* connection is checked out and BEGIN sent.
RaceCall(c, op, a, userId, role) ==
    /\ clients[c].pc = "idle"
    /\ clients[c].calls < MaxCalls
    /\ clients' = [clients EXCEPT ![c] =
          [Resting EXCEPT !.pc = "q1", !.op = op, !.a = a, !.userId = userId,
                          !.role = role, !.calls = clients[c].calls + 1]]
    /\ pool' = pool + 1
    /\ UNCHANGED <<db, ids, rnd, now, last, isolation>>

\* The statements of OrganizationsService.addMember: user check, organization
\* check, member check, INSERT.
OrgAddMemberStep(t) ==
    CASE t.pc = "q1" ->
            IF ~UserExists(Seen(t), t.userId) THEN Abort(t, "NotFoundError")
            ELSE Proceed(t, "q2")
      [] t.pc = "q2" ->
            IF ~OrgExists(Seen(t), t.a) THEN Abort(t, "NotFoundError")
            ELSE Proceed(t, "q3")
      [] t.pc = "q3" ->
            IF OrgMembershipsOf(Seen(t), t.a, t.userId) # {}
            THEN Abort(t, "ConflictError")
            ELSE Proceed(t, "q4")
      [] t.pc = "q4" ->
            Proceed(Inserting(t, "organization_memberships",
                              [id |-> GenerateId(ids, "om"), org_id |-> t.a,
                               user_id |-> t.userId, role |-> t.role]),
                    "COMMIT")

RaceOrgAddMember(c) ==
    /\ clients[c].op = "org.addMember"
    /\ clients[c].pc \in {"q1", "q2", "q3", "q4"}
    /\ clients' = [clients EXCEPT ![c] = OrgAddMemberStep(@)]
    /\ ids' = IF clients[c].pc = "q4" THEN Advance(ids, "om") ELSE ids
    /\ UNCHANGED <<db, rnd, now, last, pool, isolation>>

\* The statements of ProjectMembershipsService.addMember: project check, user
\* check, organization membership check, INSERT of the automatic VIEWER
\* membership when there is none, member check, INSERT, user data.
ProjAddMemberStep(t) ==
    CASE t.pc = "q1" ->
            IF LiveProjects(Seen(t), t.a) = {} THEN Abort(t, "NotFoundError")
            ELSE [Proceed(t, "q2") EXCEPT
                     !.orgId = (CHOOSE p \in LiveProjects(Seen(t), t.a) : TRUE).org_id]
      [] t.pc = "q2" ->
            IF ~UserExists(Seen(t), t.userId) THEN Abort(t, "NotFoundError")
            ELSE Proceed(t, "q3")
      [] t.pc = "q3" ->
            LET orgMembershipCheck == OrgMembershipsOf(Seen(t), t.orgId, t.userId)
            IN  IF orgMembershipCheck = {} THEN Proceed(t, "q4")
                ELSE [Proceed(t, "q5") EXCEPT
                         !.orgMembershipId = (CHOOSE m \in orgMembershipCheck : TRUE).id]
      [] t.pc = "q4" ->
            [Proceed(Inserting(t, "organization_memberships",
                               [id |-> GenerateId(ids, "om"), org_id |-> t.orgId,
                                user_id |-> t.userId, role |-> "VIEWER"]),
                     "q5") EXCEPT !.orgMembershipId = GenerateId(ids, "om")]
      [] t.pc = "q5" ->
            IF ProjectMembershipsOf(Seen(t), t.a, t.userId) # {}
            THEN Abort(t, "ConflictError")
            ELSE Proceed(t, "q6")
      [] t.pc = "q6" ->
            Proceed(Inserting(t, "project_memberships",
                              [project_id |-> t.a, user_id |-> t.userId,
                               org_membership_id |-> t.orgMembershipId,
                               role |-> t.role]),
                    "q7")
      [] t.pc = "q7" -> Proceed(t, "COMMIT")

RaceProjAddMember(c) ==
    /\ clients[c].op = "projectMemberships.addMember"
    /\ clients[c].pc \in {"q1", "q2", "q3", "q4", "q5", "q6", "q7"}
    /\ clients' = [clients EXCEPT ![c] = ProjAddMemberStep(@)]
    /\ ids' = IF clients[c].pc = "q4" THEN Advance(ids, "om") ELSE ids
    /\ UNCHANGED <<db, rnd, now, last, pool, isolation>>

\* The project memberships the cascade of removeMember finds.
CascadeRows(t) ==
    {pm \in Seen(t).project_memberships :
        pm.org_membership_id
            \in {m.id : m \in OrgMembershipsOf(Seen(t), t.a, t.userId)}}

\* The statements of OrganizationsService.removeMember: role, owner count
\* for an OWNER, DELETE of the project memberships, DELETE of the membership.
OrgRemoveMemberStep(t) ==
    CASE t.pc = "q1" ->
            LET currentRole == OrgMembershipsOf(Seen(t), t.a, t.userId)
            IN  IF currentRole = {} THEN Abort(t, "NotFoundError")
                ELSE IF (CHOOSE m \in currentRole : TRUE).role = "OWNER"
                THEN Proceed(t, "q2")
                ELSE Proceed(t, "q3")
      [] t.pc = "q2" ->
            IF OrgOwnersCount(Seen(t), t.a) <= 1 THEN Abort(t, "BusinessLogicError")
            ELSE Proceed(t, "q3")
      [] t.pc = "q3" ->
            Proceed(Deleting(t, "project_memberships", CascadeRows(t)), "q4")
      [] t.pc = "q4" ->
            IF OrgMembershipsOf(Seen(t), t.a, t.userId) = {}
            THEN Abort(t, "NotFoundError")
            ELSE Proceed(Deleting(t, "organization_memberships",
                                  OrgMembershipsOf(Seen(t), t.a, t.userId)),
                         "COMMIT")

RaceOrgRemoveMember(c) ==
    /\ clients[c].op = "org.removeMember"
    /\ clients[c].pc \in {"q1", "q2", "q3", "q4"}
    /\ clients[c].pc = "q3" => RowsFree(c, "project_memberships", CascadeRows(clients[c]))
    /\ clients[c].pc = "q4" =>
          RowsFree(c, "organization_memberships",
                   OrgMembershipsOf(Seen(clients[c]), clients[c].a, clients[c].userId))
    /\ clients' = [clients EXCEPT ![c] = OrgRemoveMemberStep(@)]
    /\ UNCHANGED <<db, ids, rnd, now, last, pool, isolation>>

\* The statements of UsersService.delete: membership count, DELETE of the
\* accounts, of the sessions, of the user.
UserDeleteStep(t) ==
    CASE t.pc = "q1" ->
            IF Cardinality({m \in Seen(t).organization_memberships :
                               m.user_id = t.userId}) > 0
            THEN Abort(t, "BusinessLogicError")
            ELSE Proceed(t, "q2")
      [] t.pc = "q2" ->
            Proceed(Deleting(t, "accounts", Seen(t).accounts \cap {t.userId}), "q3")
      [] t.pc = "q3" ->
            Proceed(Deleting(t, "sessions", Seen(t).sessions \cap {t.userId}), "q4")
      [] t.pc = "q4" ->
            IF ~UserExists(Seen(t), t.userId) THEN Abort(t, "NotFoundError")
            ELSE Proceed(Deleting(t, "users",
                                  {u \in Seen(t).users : u.id = t.userId}),
                         "COMMIT")

RaceUserDelete(c) ==
    /\ clients[c].op = "users.delete"
    /\ clients[c].pc \in {"q1", "q2", "q3", "q4"}
    /\ clients[c].pc = "q2" => RowsFree(c, "accounts", {clients[c].userId})
    /\ clients[c].pc = "q3" => RowsFree(c, "sessions", {clients[c].userId})
    /\ clients[c].pc = "q4" =>
          RowsFree(c, "users", {u \in db.users : u.id = clients[c].userId})
    /\ clients' = [clients EXCEPT ![c] = UserDeleteStep(@)]
    /\ UNCHANGED <<db, ids, rnd, now, last, pool, isolation>>

\* COMMIT, release, return: the writes of the transaction reach the tables.
RaceCommit(c) ==
    /\ clients[c].pc = "COMMIT"
    /\ db' = Seen(clients[c])
    /\ clients' = [clients EXCEPT ![c] =
          [@ EXCEPT !.pc = "idle", !.ins = NoRows, !.del = NoRows]]
    /\ pool' = pool - 1
    /\ last' = [op |-> clients[c].op, kind |-> "ok", cause |-> "none",
                members |-> <<>>, success |-> <<>>, errors |-> <<>>,
                value |-> <<>>]
    /\ UNCHANGED <<ids, rnd, now, isolation>>

\* ROLLBACK, release, throw new DatabaseError: the writes are dropped.
RaceRollback(c) ==
    /\ clients[c].pc = "ROLLBACK"
    /\ clients' = [clients EXCEPT ![c] =
          [@ EXCEPT !.pc = "idle", !.ins = NoRows, !.del = NoRows]]
    /\ pool' = pool - 1
    /\ last' = [op |-> clients[c].op, kind |-> "DatabaseError",
                cause |-> clients[c].err,
                members |-> <<>>, success |-> <<>>, errors |-> <<>>,
                value |-> <<>>]
    /\ UNCHANGED <<db, ids, rnd, now, isolation>>

\* Users 2 (a VIEWER of organization 1) and 3 (no member) are added to the
\* organization and to its projects, removed from it, and deleted.
NextRaces ==
    \/ \E c \in Clients, userId \in {2, 3} :
          RaceCall(c, "org.addMember", 1, userId, "VIEWER")
    \/ \E c \in Clients, projectId \in {1, 2}, userId \in {2, 3} :
          RaceCall(c, "projectMemberships.addMember", projectId, userId, "VIEWER")
    \/ \E c \in Clients, userId \in {2, 3} :
          RaceCall(c, "org.removeMember", 1, userId, "none")
    \/ \E c \in Clients, userId \in {2, 3} :
          RaceCall(c, "users.delete", Null, userId, "none")
    \/ \E c \in Clients : RaceOrgAddMember(c)
    \/ \E c \in Clients : RaceProjAddMember(c)
    \/ \E c \in Clients : RaceOrgRemoveMember(c)
    \/ \E c \in Clients : RaceUserDelete(c)
    \/ \E c \in Clients : RaceCommit(c)
    \/ \E c \in Clients : RaceRollback(c)

SpecRaces == InitRaces /\ [][NextRaces]_vars


\* ----------------------------------------------------------------- claims
\* The state a call made now starts from.
Here == Start(db, ids, rnd)

OrgMembers(orgId) == {m \in db.organization_memberships : m.org_id = orgId}

ProjectMembers(projectId) == {m \in db.project_memberships : m.project_id = projectId}

\* C1: in every committed state, every organization that exists has at
\* least one membership with role OWNER.
C1_EveryOrganizationHasAnOwner ==
    \A o \in db.organizations : OrgOwnersCount(db, o.id) >= 1

\* An owner has just been removed from an organization that keeps one OWNER
\* among several members.
C1_OwnerRemovedOneLeft ==
    /\ last.op = "org.removeMember"
    /\ last.kind = "ok"
    /\ \E o \in db.organizations :
          /\ OrgOwnersCount(db, o.id) = 1
          /\ Cardinality(OrgMembers(o.id)) >= 2
          /\ ids["om"] > Cardinality(db.organization_memberships)

\* C2: in every committed state, every project that has at least one
\* membership has at least one membership with role OWNER.
C2_EveryProjectWithMembersHasAnOwner ==
    \A p \in db.projects :
        ProjectMembers(p.id) # {} => ProjectOwnersCount(db, p.id) >= 1

\* C3: a call whose unit of work raised NotFound, Conflict or BusinessRule
\* shows its caller a failure of that same kind.
C3_TypedFailureKeepsItsKind ==
    last.cause \in TypedKinds => last.kind = last.cause

\* C4: a call of a transactional operation that fails, at whatever
\* statement, leaves the persisted tables exactly as they were before it.
C4_FailedCallLeavesTablesUnchanged ==
    [][last'.kind # "ok" => db' = db]_vars

\* A project addMember has just failed on the driver, in a state where that
\* call writes an automatic organization membership before its last
\* statements.
C4_DriverFailedDuringAddMember ==
    /\ last.op = "projectMemberships.addMember"
    /\ last.kind = "DatabaseError"
    /\ last.cause = "DriverError"
    /\ \E u \in db.users : \E p \in db.projects :
          /\ p.deleted_at = Null
          /\ OrgMembershipsOf(db, p.org_id, u.id) = {}
          /\ ProjAddMemberBody(Here, p.id, u.id, "VIEWER", "q6").db # db

\* C5: project addMember for an existing user with no membership in the
\* organization of a live project succeeds and adds exactly one organization
\* membership, for that user with role VIEWER, and exactly one project
\* membership that refers to it; a call that fails (project absent or
\* soft-deleted, user absent, project membership already there) changes no
\* table.
C5_AutoJoinAddsBothRowsOrNone ==
    \A projectId \in IdInputs("prj"), userId \in IdInputs("usr"),
       role \in ProjectRoleInputs \cup {Undefined} :
        LET r == ProjAddMemberCall(Here, projectId, userId, role, "none")
            live == LiveProjects(db, projectId)
            orgId == (CHOOSE p \in live : TRUE).org_id
            newOm == r.db.organization_memberships \ db.organization_memberships
            newPm == r.db.project_memberships \ db.project_memberships
        IN  /\ (/\ live # {}
                /\ UserExists(db, userId)
                /\ OrgMembershipsOf(db, orgId, userId) = {})
               => /\ r.out.kind = "ok"
                  /\ db.organization_memberships \subseteq r.db.organization_memberships
                  /\ db.project_memberships \subseteq r.db.project_memberships
                  /\ \E om \in newOm :
                        /\ newOm = {om}
                        /\ om.org_id = orgId
                        /\ om.user_id = userId
                        /\ om.role = "VIEWER"
                        /\ newPm = {[project_id |-> projectId, user_id |-> userId,
                                     org_membership_id |-> om.id,
                                     role |-> IF role = Undefined THEN "VIEWER"
                                              ELSE role]}
            /\ (\/ live = {}
                \/ ~UserExists(db, userId)
                \/ ProjectMembershipsOf(db, projectId, userId) # {})
               => /\ r.out.kind # "ok"
                  /\ r.db = db
            /\ r.out.kind # "ok" => r.db = db

\* A project addMember has just succeeded and the newest organization
\* membership is a VIEWER one that a project membership of an OWNER refers to.
C5_AutoJoined ==
    /\ last.op = "projectMemberships.addMember"
    /\ last.kind = "ok"
    /\ \E om \in db.organization_memberships :
          /\ om.id = ids["om"]
          /\ om.role = "VIEWER"
          /\ \E pm \in db.project_memberships :
                /\ pm.org_membership_id = om.id
                /\ pm.user_id = om.user_id
                /\ pm.role = "OWNER"

\* C6: no two organization memberships have the same organization and user,
\* and organization addMember for a pair that already has a membership fails
\* and changes no table.
C6_OneMembershipPerPair ==
    /\ \A m1, m2 \in db.organization_memberships :
          (m1.org_id = m2.org_id /\ m1.user_id = m2.user_id) => m1 = m2
    /\ \A m \in db.organization_memberships, role \in OrgRoleInputs \cup {Undefined} :
          LET r == OrgAddMemberCall(Here, m.org_id, m.user_id, role, "none")
          IN  r.out.kind # "ok" /\ r.db = db

\* An organization addMember has just been refused for a pair that is
\* already a membership, in a state that also holds an automatic membership.
C6_SecondAddRefused ==
    /\ last.op = "org.addMember"
    /\ last.kind = "DatabaseError"
    /\ last.cause = "ConflictError"
    /\ db.project_memberships # {}
    /\ Cardinality(db.organization_memberships) >= 2

\* C7 as stated: removeMember succeeds whenever the membership it targets is
\* the only membership of its organization (of its project), OWNER included.
C7_SoleMembershipCanBeRemoved ==
    /\ \A m \in db.organization_memberships :
          OrgMembers(m.org_id) = {m}
              => OrgRemoveMemberCall(Here, m.org_id, m.user_id, "none").out.kind = "ok"
    /\ \A m \in db.project_memberships :
          ProjectMembers(m.project_id) = {m}
              => ProjRemoveMemberCall(Here, m.project_id, m.user_id, "none").out.kind = "ok"

\* C7, amended: removeMember of an OWNER membership is refused, and changes
\* nothing, whenever it is the only OWNER membership of its organization (of
\* its project), whether or not other members remain and also when it is the
\* only membership; every other removeMember of an existing membership
\* succeeds and deletes exactly that membership.
C7_LastOwnerIsNeverRemoved ==
    /\ \A m \in db.organization_memberships :
          LET r == OrgRemoveMemberCall(Here, m.org_id, m.user_id, "none")
          IN  IF m.role = "OWNER" /\ OrgOwnersCount(db, m.org_id) <= 1
              THEN r.out.kind # "ok" /\ r.db = db
              ELSE /\ r.out.kind = "ok"
                   /\ r.db.organization_memberships =
                          db.organization_memberships \ {m}
    /\ \A m \in db.project_memberships :
          LET r == ProjRemoveMemberCall(Here, m.project_id, m.user_id, "none")
          IN  IF m.role = "OWNER" /\ ProjectOwnersCount(db, m.project_id) <= 1
              THEN r.out.kind # "ok" /\ r.db = db
              ELSE /\ r.out.kind = "ok"
                   /\ r.db.project_memberships = db.project_memberships \ {m}

\* The only organization has a single membership, and removeMember has just
\* been refused with the last-owner rule.
C7_SoleOwnerRemovalRefused ==
    /\ last.op = "org.removeMember"
    /\ last.kind = "DatabaseError"
    /\ last.cause = "BusinessLogicError"
    /\ Cardinality(db.organizations) = 1
    /\ ids["org"] = 1
    /\ Cardinality(db.organization_memberships) = 1

\* C8: updateMember of an OWNER membership to a role other than OWNER
\* succeeds, and sets that role, exactly when the organization has at least
\* two OWNER memberships; otherwise it fails and the member stays OWNER.
C8_DemotionNeedsTwoOwners ==
    \A m \in db.organization_memberships, role \in OrgRoles \ {"OWNER"} :
        m.role = "OWNER" =>
            LET r == OrgUpdateMemberCall(Here, m.org_id, m.user_id, role, "none")
            IN  IF OrgOwnersCount(db, m.org_id) >= 2
                THEN /\ r.out.kind = "ok"
                     /\ r.db.organization_memberships =
                            (db.organization_memberships \ {m})
                                \cup {[m EXCEPT !.role = role]}
                ELSE r.out.kind # "ok" /\ r.db = db

\* The end of the scenario: organization 1 was created by user 1, user 2 was
\* added as ADMIN, user 3 as OWNER, and updateMember has just made user 1 a
\* VIEWER.
C8_AcmeOwnerDemoted ==
    /\ last.op = "org.updateMember"
    /\ last.kind = "ok"
    /\ db.organization_memberships =
          {[id |-> 1, org_id |-> 1, user_id |-> 1, role |-> "VIEWER"],
           [id |-> 2, org_id |-> 1, user_id |-> 2, role |-> "ADMIN"],
           [id |-> 3, org_id |-> 1, user_id |-> 3, role |-> "OWNER"]}

\* C9: deleteUser of a user who holds an organization membership fails and
\* changes no table (the user row and the account and session rows stay);
\* deleteUser of a user who holds none succeeds and the user row is gone.
C9_DeleteUserGuard ==
    \A u \in db.users :
        LET r == UserDeleteCall(Here, u.id, "none")
        IN  IF \E m \in db.organization_memberships : m.user_id = u.id
            THEN r.out.kind # "ok" /\ r.db = db
            ELSE /\ r.out.kind = "ok"
                 /\ r.db.users = db.users \ {u}
                 /\ u.id \notin r.db.accounts
                 /\ u.id \notin r.db.sessions

\* deleteUser has just been refused because of memberships: every user is
\* still there with its account and its session.
C9_DeleteRefused ==
    /\ last.op = "users.delete"
    /\ last.kind = "DatabaseError"
    /\ last.cause = "BusinessLogicError"
    /\ {u.id : u \in db.users} = 1..MaxUsers
    /\ db.accounts = 1..MaxUsers
    /\ db.sessions = 1..MaxUsers

\* The entries of members that a labelling puts under tag, in input order.
Labelled(members, lab, tag) ==
    LET idx == {i \in DOMAIN members : lab[i] = tag}
    IN  [k \in 1..Cardinality(idx) |->
            members[CHOOSE i \in idx : Cardinality({j \in idx : j <= i}) = k]]

\* C10: a batch that ran on a live project put every entry, in input order,
\* in exactly one of success and errors; every error carries its entry's
\* userId ('unknown' for an entry without one) and a reason; every
\* membership in success is in the table.
C10_BatchPartitionsItsEntries ==
    (last.op = "projectMemberships.addBatchMembers" /\ last.kind = "ok") =>
        /\ Len(last.success) + Len(last.errors) = Len(last.members)
        /\ \E lab \in [DOMAIN last.members -> {"success", "errors"}] :
              /\ [k \in DOMAIN last.success |-> last.success[k].user_id]
                    = [k \in DOMAIN Labelled(last.members, lab, "success") |->
                          Labelled(last.members, lab, "success")[k].userId]
              /\ [k \in DOMAIN last.errors |-> last.errors[k].userId]
                    = [k \in DOMAIN Labelled(last.members, lab, "errors") |->
                          IF Labelled(last.members, lab, "errors")[k].userId = Null
                          THEN Unknown
                          ELSE Labelled(last.members, lab, "errors")[k].userId]
        /\ \A k \in DOMAIN last.errors :
              last.errors[k].error \in
                  {"ID de usuario requerido", "Error al ejecutar transacción",
                   "Rol inválido. Debe ser OWNER, ADMIN, MEMBER o VIEWER"}
        /\ \A k \in DOMAIN last.success :
              \E pm \in db.project_memberships :
                  /\ pm.project_id = last.success[k].project_id
                  /\ pm.user_id = last.success[k].user_id
                  /\ pm.role = last.success[k].role

\* A batch of two whose first entry failed and whose second entry was added.
C10_FirstFailedSecondAdded ==
    /\ last.op = "projectMemberships.addBatchMembers"
    /\ last.kind = "ok"
    /\ Len(last.members) = 2
    /\ Len(last.success) = 1
    /\ Len(last.errors) = 1
    /\ last.errors[1].userId = last.members[1].userId
    /\ last.success[1].user_id = last.members[2].userId
    /\ last.members[1].userId # last.members[2].userId

\* ------------------------------------------------ claims on API keys
\* The secrets and the hashes of the keys issued so far: the even draws of
\* generateApiKey are the secret keys.
IssuedSecrets == {GenerateApiKey("sk", n) : n \in {i \in 1..rnd : i % 2 = 0}}
IssuedHashes == {HashSecretKey(s) : s \in IssuedSecrets}

\* A returned row gives away no secret: it has no hashed_secret_key and no
\* secretKey field, and its key strings are neither a secret nor a hash.
Discreet(row) ==
    /\ "hashed_secret_key" \notin DOMAIN row
    /\ "secretKey" \notin DOMAIN row
    /\ \A c \in {"public_key", "display_secret_key"} :
          row[c] \notin IssuedSecrets \cup IssuedHashes

\* C11: no row of api_keys stores a full secret, and no read or update path
\* (getById, getByProject, getExpired, updateNote, updateExpiration) returns
\* a full secret or its stored hash, whatever key or project it is asked for.
C11_ReadsNeverReturnTheSecret ==
    /\ \A k \in db.api_keys, c \in {"public_key", "hashed_secret_key",
                                    "display_secret_key"} :
          k[c] \notin IssuedSecrets
    /\ \A id \in IdInputs("key") :
          /\ \A i \in DOMAIN ApiKeyGetByIdCall(Here, id, "none").value :
                Discreet(ApiKeyGetByIdCall(Here, id, "none").value[i])
          /\ \A i \in DOMAIN ApiKeyUpdateNoteCall(Here, id, 1, "none").value :
                Discreet(ApiKeyUpdateNoteCall(Here, id, 1, "none").value[i])
          /\ \A e \in DateInputs :
                \A i \in DOMAIN ApiKeyUpdateExpirationCall(Here, id, e, now, "none").value :
                    Discreet(ApiKeyUpdateExpirationCall(Here, id, e, now, "none").value[i])
    /\ \A projectId \in IdInputs("prj") :
          \A i \in DOMAIN ApiKeyGetByProjectCall(Here, projectId, "none").value :
              Discreet(ApiKeyGetByProjectCall(Here, projectId, "none").value[i])
    /\ \A order \in SoonestFirst({ExpiredColumns(k) : k \in Expired(db, now)}) :
          \A i \in DOMAIN order : Discreet(order[i])

\* A key made by create (not the project's own) has just been read back by
\* getById, after its secret was handed out once.
C11_CreatedKeyReadBack ==
    /\ last.op = "apiKeys.getById"
    /\ last.kind = "ok"
    /\ last.value[1].id = 2
    /\ GenerateApiKey("sk", 4) \in IssuedSecrets

\* What a caller may present as a secret: the empty string, any secret-shaped
\* string drawn or not, a public key, a stored hash, a display fragment.
Guesses ==
    {NoKey} \cup {GenerateApiKey("sk", n) : n \in 1..(rnd + 4)}
        \cup {GenerateApiKey("pk", n) : n \in 1..(rnd + 4)}
        \cup {k.hashed_secret_key : k \in db.api_keys}
        \cup {k.display_secret_key : k \in db.api_keys}

\* C12: for the pair (pub, sec) that create returns on a live project, verify
\* (pub, sec) resolves to that project's id, org_id and name without
\* deleted_at, and verify(pub, s) resolves to null and changes nothing for
\* every other s; the stored hash is hashSecretKey of the returned secret.
C12_FreshPairVerifies ==
    \A p \in db.projects, e \in DateInputs :
        LET r == ApiKeyCreateCall(Here, p.id, Null, e, now, "none")
            after == Start(r.db, r.ids, r.rnd)
            pub == r.value[1].public_key
            sec == r.value[1].secretKey
        IN  (p.deleted_at = Null /\ r.out.kind = "ok") =>
              /\ ApiKeyVerifyCall(after, pub, sec, now, "none").value
                    = <<[id |-> p.id, org_id |-> p.org_id, name |-> p.name]>>
              /\ \A k \in r.db.api_keys :
                    k.public_key = pub => k.hashed_secret_key = HashSecretKey(sec)
              /\ \A s \in Guesses \cup {GenerateApiKey("sk", n) : n \in 1..(r.rnd + 2)} :
                    s # sec =>
                        /\ ApiKeyVerifyCall(after, pub, s, now, "none").value = <<>>
                        /\ ApiKeyVerifyCall(after, pub, s, now, "none").db = r.db

\* verify has just resolved to the project for the key that create made.
C12_CreatedKeyVerified ==
    /\ last.op = "apiKeys.verify"
    /\ last.kind = "ok"
    /\ last.value = <<[id |-> 1, org_id |-> 1, name |-> "Web"]>>
    /\ \E k \in db.api_keys : k.id = 2 /\ k.last_used_at # Null

\* C13: for a key whose expires_at is set and in the past, verify answers
\* every secret, the right one included, exactly as it answers a public key
\* that no row has: same result, same tables, at every statement the driver
\* may fail.
C13_ExpiredIsLikeAbsent ==
    \A k \in db.api_keys :
        (k.expires_at # Null /\ k.expires_at < now) =>
            \A s \in Guesses, f \in {"none", "q1", "q2", "q3"} :
                ApiKeyVerifyCall(Here, k.public_key, s, now, f)
                    = ApiKeyVerifyCall(Here, GenerateApiKey("pk", rnd + 1), s, now, f)

\* verify has just resolved to null while every key in the table has
\* expired and none has ever been used.
C13_VerifyOnExpiredKeys ==
    /\ last.op = "apiKeys.verify"
    /\ last.kind = "ok"
    /\ last.value = <<>>
    /\ db.api_keys # {}
    /\ \A k \in db.api_keys :
          k.expires_at # Null /\ k.expires_at < now /\ k.last_used_at = Null
    /\ \A p \in db.projects : p.deleted_at = Null

\* C14 as stated: regenerate without expiresAt keeps the stored expiration;
\* regenerate with an expiresAt that is given, null included, stores the
\* given value, so an explicit null clears the expiration.
C14_GivenExpirationReplacesStored ==
    \A k \in db.api_keys, options \in RegenerateOptions :
        LET r == ApiKeyRegenerateCall(Here, k.id, options, now, "none")
        IN  r.out.kind = "ok" =>
                \A n \in r.db.api_keys :
                    n.id = k.id =>
                        n.expires_at = IF options.given THEN options.expiresAt
                                       ELSE k.expires_at

\* C15 as stated: regenerate of an existing key succeeds, keeps id, project
\* and note, stores a new public key, hash and fragment, and the previous
\* public key no longer verifies with any secret; regenerate of an absent
\* id fails with NotFound and changes nothing.
C15_RegenerateReplacesThePair ==
    \A id \in IdInputs("key") :
        LET r == ApiKeyRegenerateCall(Here, id, [given |-> FALSE, expiresAt |-> Null],
                                      now, "none")
            after == Start(r.db, r.ids, r.rnd)
            sec == GenerateApiKey("sk", rnd + 2)
        IN  IF \E k \in db.api_keys : k.id = id
            THEN /\ r.out.kind = "ok"
                 /\ \A k \in db.api_keys :
                       k.id = id =>
                         /\ r.db.api_keys \ db.api_keys =
                               {[k EXCEPT !.public_key = GenerateApiKey("pk", rnd + 1),
                                          !.hashed_secret_key = HashSecretKey(sec),
                                          !.display_secret_key = DisplaySecretKey(sec)]}
                         /\ db.api_keys \ r.db.api_keys = {k}
                         /\ \A s \in Guesses :
                               ApiKeyVerifyCall(after, k.public_key, s, now, "none").value
                                   = <<>>
            ELSE r.out.kind = "NotFoundError" /\ r.db = db

\* The calls that target project P or key k of P do nothing: they fail or
\* resolve to nothing, and leave the tables as they are.
Inert(r) == r.db = db /\ (r.out.kind # "ok" \/ r.value = <<>>)

\* C16 as stated: once a project is soft-deleted, every membership operation
\* on it and every API key operation on it or on one of its keys fails or
\* resolves to nothing, and changes no table.
C16_DeletedProjectIsOutOfReach ==
    \A p \in db.projects :
        p.deleted_at # Null =>
            /\ \A userId \in IdInputs("usr"), role \in ProjectRoleInputs :
                  /\ ProjAddMemberCall(Here, p.id, userId, role, "none").out.kind # "ok"
                  /\ ProjAddMemberCall(Here, p.id, userId, role, "none").db = db
                  /\ ProjUpdateMemberCall(Here, p.id, userId, role, "none").out.kind # "ok"
                  /\ ProjUpdateMemberCall(Here, p.id, userId, role, "none").db = db
                  /\ ProjRemoveMemberCall(Here, p.id, userId, "none").out.kind # "ok"
                  /\ ProjRemoveMemberCall(Here, p.id, userId, "none").db = db
                  /\ AddBatchMembersCall(Here, p.id,
                        <<[userId |-> userId, role |-> role]>>, 0, "none").out.kind # "ok"
            /\ Inert(ProjGetByProjectCall(Here, p.id, "none"))
            /\ Inert(ApiKeyCreateCall(Here, p.id, Null, Null, now, "none"))
            /\ Inert(ApiKeyGetByProjectCall(Here, p.id, "none"))
            /\ \A k \in db.api_keys :
                  k.project_id = p.id =>
                      /\ Inert(ApiKeyGetByIdCall(Here, k.id, "none"))
                      /\ Inert(ApiKeyRegenerateCall(Here, k.id,
                            [given |-> FALSE, expiresAt |-> Null], now, "none"))
                      /\ Inert(ApiKeyUpdateExpirationCall(Here, k.id, Null, now, "none"))
                      /\ Inert(ApiKeyUpdateNoteCall(Here, k.id, 1, "none"))
                      /\ ApiKeyDeleteCall(Here, k.id, "none").out.kind # "ok"
                      /\ ApiKeyDeleteCall(Here, k.id, "none").db = db
                      /\ \A s \in Guesses :
                            Inert(ApiKeyVerifyCall(Here, k.public_key, s, now, "none"))

\* The project memberships whose back-reference is the organization
\* membership m.
LinkedTo(m) == {pm \in db.project_memberships : pm.org_membership_id = m.id}

\* C19: a successful organizations.removeMember deletes every project
\* membership whose back-reference is the removed organization membership
\* and then that membership, and nothing else: the statement that deletes the
\* organization membership runs on tables that have already lost those
\* project memberships, and every other row of every table is as it was.
C19_RemoveMemberCascades ==
    \A m \in db.organization_memberships :
        \E r \in {OrgRemoveMemberCall(Here, m.org_id, m.user_id, "none")} :
            r.out.kind = "ok" =>
                /\ r.db = [db EXCEPT !.project_memberships = @ \ LinkedTo(m),
                                     !.organization_memberships = @ \ {m}]
                /\ OrgRemoveMemberBody(Here, m.org_id, m.user_id, "q4").db =
                       [db EXCEPT !.project_memberships = @ \ LinkedTo(m)]
                /\ \A pm \in r.db.project_memberships :
                       pm \in db.project_memberships /\ pm.org_membership_id # m.id

\* A member who holds project memberships can be removed from the
\* organization, and other members hold project memberships too.
C19_MemberWithProjectsRemovable ==
    \E m \in db.organization_memberships :
        /\ LinkedTo(m) # {}
        /\ db.project_memberships \ LinkedTo(m) # {}
        /\ OrgRemoveMemberCall(Here, m.org_id, m.user_id, "none").out.kind = "ok"

\* C20: the back-reference of every project membership is the id of an
\* existing organization membership of the same user in the organization
\* that owns the project.
C20_BackReferenceIsTheMembersOwn ==
    \A pm \in db.project_memberships :
        \E om \in db.organization_memberships, p \in db.projects :
            /\ om.id = pm.org_membership_id
            /\ om.user_id = pm.user_id
            /\ p.id = pm.project_id
            /\ om.org_id = p.org_id

\* A member has just been removed from an organization, and project
\* memberships of other members remain.
C20_MembershipsLeftAfterRemoval ==
    /\ last.op = "org.removeMember"
    /\ last.kind = "ok"
    /\ db.project_memberships # {}
    /\ ids["om"] > Cardinality(db.organization_memberships)

\* Some organization or project has members and none of them is an OWNER.
Ownerless ==
    \/ \E o \in db.organizations :
          OrgMembers(o.id) # {} /\ OrgOwnersCount(db, o.id) = 0
    \/ \E p \in db.projects :
          /\ {m \in db.project_memberships : m.project_id = p.id} # {}
          /\ ProjectOwnersCount(db, p.id) = 0

\* C17: starting from an organization and a project with two OWNERs each,
\* concurrent updateMember and removeMember transactions reach a state with
\* members and no OWNER only when transactions are isolated as read committed
\* without a lock; with serializable isolation, or with a lock on the
\* membership set held from the check to the end of the transaction, every
\* organization and project with members keeps an OWNER.
C17_OwnerlessOnlyUnderReadCommitted ==
    Ownerless => isolation = "read committed"

\* Two callers demoted the two OWNERs of organization 1: each counted the
\* owners, each committed, neither failed, and no OWNER is left.
C17_BothOwnersDemoted ==
    /\ isolation = "read committed"
    /\ OrgMembers(1) # {}
    /\ OrgOwnersCount(db, 1) = 0
    /\ clients[1].userId # clients[2].userId
    /\ \A c \in {1, 2} :
          /\ clients[c].op = "org.updateMember"
          /\ clients[c].pc = "idle"
          /\ clients[c].err = "none"
          /\ clients[c].log = <<"connect", "BEGIN", "SELECT role", "SELECT COUNT",
                                "UPDATE", "COMMIT", "release">>

\* How often a statement appears in the log of a call.
Times(log, statement) == Cardinality({i \in 1..Len(log) : log[i] = statement})

\* C18: the connections checked out of the pool are those of the callers
\* between pool.connect() and client.release(); a call checks out one
\* connection and releases it once, as its last step, whatever happened in
\* between; when BEGIN was sent, COMMIT or ROLLBACK was sent before the
\* release; and when no caller is inside transaction(), no connection is
\* checked out.
C18_OneConnectionReleasedOnce ==
    /\ pool = Cardinality({c \in Clients : clients[c].pc \notin {"idle", "connect"}})
    /\ \A c \in Clients :
          \E log \in {clients[c].log} :
              /\ Times(log, "connect") <= 1
              /\ Times(log, "release") <= 1
              /\ Times(log, "release") <= Times(log, "connect")
              /\ (clients[c].pc = "idle" /\ clients[c].op # "none") =>
                    /\ Times(log, "connect") = 1
                    /\ Times(log, "release") = 1
                    /\ log[Len(log)] = "release"
              /\ (Times(log, "BEGIN") > 0 /\ Times(log, "release") > 0) =>
                    \E i \in 1..Len(log) :
                        /\ log[i] \in {"COMMIT", "ROLLBACK"}
                        /\ \A j \in 1..Len(log) : log[j] = "release" => i < j
    /\ (\A c \in Clients : clients[c].pc = "idle") => pool = 0

\* A call whose COMMIT failed and whose ROLLBACK failed too has returned, and
\* no connection is checked out.
C18_RollbackFailedAndReleased ==
    \E c \in Clients :
        /\ clients[c].pc = "idle"
        /\ clients[c].err = "RollbackFailed"
        /\ Logged(clients[c], "COMMIT")
        /\ Logged(clients[c], "ROLLBACK")
        /\ Logged(clients[c], "release")
        /\ pool = 0

\* Every expiresAt a caller may pass: null, the empty string, a string that
\* is no date, and the dates around the clock.
AnyExpiresAt == {Null, EmptyString, InvalidDate} \cup 1..(MaxClock + 1)

\* An expiresAt the claim lets through: absent or null, or a date strictly
\* later than the clock.
Acceptable(expiresAt) == expiresAt = Null \/ expiresAt > now

\* The rows a call wrote carry no expiration that has already passed.
WritesNoPastExpiration(r) ==
    \A k \in r.db.api_keys \ db.api_keys : k.expires_at = Null \/ k.expires_at >= now

\* The call went through for an acceptable expiresAt only, failed with a
\* BusinessLogicError and wrote nothing for any other, and wrote no
\* expiration that has passed.
ValidatesExpiresAt(r, expiresAt) ==
    /\ r.out.kind = "ok" => Acceptable(expiresAt)
    /\ ~Acceptable(expiresAt) => r.out.kind = "BusinessLogicError" /\ r.db = db
    /\ WritesNoPastExpiration(r)

\* C21 as stated: create, regenerate and updateExpiration go through only
\* when expiresAt is absent, null or a date strictly later than the clock;
\* for an unparsable or non-future value they fail with a BusinessLogicError
\* and write nothing; and no row they write carries an expires_at that has
\* already passed.
C21_ExpirationIsValidatedBeforeAnyWrite ==
    \A e \in AnyExpiresAt :
        /\ \A p \in db.projects :
              ValidatesExpiresAt(ApiKeyCreateCall(Here, p.id, Null, e, now, "none"), e)
        /\ \A k \in db.api_keys :
              /\ ValidatesExpiresAt(
                    ApiKeyRegenerateCall(Here, k.id, [given |-> TRUE, expiresAt |-> e],
                                         now, "none"), e)
              /\ WritesNoPastExpiration(
                    ApiKeyRegenerateCall(Here, k.id, [given |-> FALSE, expiresAt |-> Null],
                                         now, "none"))
              /\ ValidatesExpiresAt(
                    ApiKeyUpdateExpirationCall(Here, k.id, e, now, "none"), e)

\* The secrets with which the public key verifies in the tables d.
VerifyingSecrets(d, publicKey) ==
    {s \in Guesses :
        ApiKeyVerifyCall(Start(d, ids, rnd), publicKey, s, now, "none").value # <<>>}

\* C22: updateExpiration(id, v) with a v that passes the validation replaces
\* the expires_at of key id by v (null for no expiration) and updateNote(id, n)
\* replaces its note by n; every other column of the key, every other key
\* and every other table are unchanged, and every secret that verified with
\* the key's public key still does.  On an id that no key has, updateNote
\* fails with NotFoundError and so does updateExpiration when v passes the
\* validation (BusinessLogicError otherwise); nothing is changed.
C22_UpdatesTouchOneColumn ==
    /\ \A id \in IdInputs("key"), v \in AnyExpiresAt :
          \E r \in {ApiKeyUpdateExpirationCall(Here, id, v, now, "none")} :
              /\ r.out.kind \in {"ok", "NotFoundError", "BusinessLogicError"}
              /\ r.out.kind = "BusinessLogicError" <=> ParseExpiresAt(v, now).err # "none"
              /\ r.out.kind = "NotFoundError" <=>
                    /\ ParseExpiresAt(v, now).err = "none"
                    /\ \A k \in db.api_keys : k.id # id
              /\ r.out.kind # "ok" => r.db = db
              /\ r.out.kind = "ok" =>
                    \A k \in db.api_keys :
                        k.id = id =>
                            /\ r.db = [db EXCEPT !.api_keys = (@ \ {k}) \cup
                                  {[k EXCEPT !.expires_at = ParseExpiresAt(v, now).value]}]
                            /\ VerifyingSecrets(db, k.public_key)
                                  \subseteq VerifyingSecrets(r.db, k.public_key)
    /\ \A id \in IdInputs("key"), n \in {Null, 1, 2} :
          \E r \in {ApiKeyUpdateNoteCall(Here, id, n, "none")} :
              IF \A k \in db.api_keys : k.id # id
              THEN r.out.kind = "NotFoundError" /\ r.db = db
              ELSE /\ r.out.kind = "ok"
                   /\ \A k \in db.api_keys :
                         k.id = id =>
                             /\ r.db = [db EXCEPT !.api_keys = (@ \ {k}) \cup
                                   {[k EXCEPT !.note = n]}]
                             /\ VerifyingSecrets(db, k.public_key)
                                   = VerifyingSecrets(r.db, k.public_key)

\* The note of a key that has an expiration and has been used was just set.
C22_NoteSetOnUsedKey ==
    /\ last.op = "apiKeys.updateNote"
    /\ last.kind = "ok"
    /\ \E k \in db.api_keys :
          /\ k.note = 1
          /\ k.expires_at # Null
          /\ k.last_used_at # Null
          /\ VerifyingSecrets(db, k.public_key) # {}

\* The keys that (publicKey, secretKey) matches: the public key is theirs,
\* they are not expired, their stored hash is the hash of the secret, and
\* their project exists and is not soft-deleted.
Matching(publicKey, secretKey) ==
    {k \in db.api_keys :
        /\ k.public_key = publicKey
        /\ ~(k.expires_at # Null /\ k.expires_at < now)
        /\ k.hashed_secret_key = HashSecretKey(secretKey)
        /\ \E p \in db.projects : p.id = k.project_id /\ p.deleted_at = Null}

\* C23: verify(pub, sec) resolves to a project exactly when a key with public
\* key pub exists, is not expired, stores the hash of sec and belongs to a
\* project that is not soft-deleted; it then resolves to that project and
\* sets last_used_at of that key to the current time, changing nothing else;
\* in every other case it resolves to null and leaves every table unchanged.
C23_VerifyMatchesExactlyLiveKeys ==
    \A publicKey \in PublicKeyInputs \cup {k.public_key : k \in db.api_keys},
       secretKey \in Guesses :
        \E r \in {ApiKeyVerifyCall(Here, publicKey, secretKey, now, "none")} :
            /\ r.out.kind = "ok"
            /\ r.value # <<>> <=> Matching(publicKey, secretKey) # {}
            /\ Matching(publicKey, secretKey) = {} => r.db = db
            /\ \A k \in Matching(publicKey, secretKey) :
                  /\ r.db = [db EXCEPT !.api_keys =
                                (@ \ {k}) \cup {[k EXCEPT !.last_used_at = now]}]
                  /\ \E p \in db.projects :
                        /\ p.id = k.project_id
                        /\ r.value = <<[id |-> p.id, org_id |-> p.org_id,
                                        name |-> p.name]>>

\* A key has just been verified at the current time while another key of the
\* installation has never been used.
C23_OneOfTwoKeysUsed ==
    /\ last.op = "apiKeys.verify"
    /\ last.kind = "ok"
    /\ last.value # <<>>
    /\ \E k, j \in db.api_keys :
          /\ k.last_used_at = now
          /\ j.last_used_at = Null
          /\ j.expires_at # Null

\* The keys whose expiration is set and earlier than the current time.
PastKeys == {k \in db.api_keys : k.expires_at # Null /\ k.expires_at < now}

\* C24: cleanupExpired() deletes exactly the keys whose expires_at is not
\* null and earlier than the current time, resolves to their number and
\* changes nothing else; getExpired() called right after resolves to the
\* empty list; getExpired() resolves to exactly those keys, soonest first,
\* and changes nothing.
C24_CleanupDeletesExactlyTheExpired ==
    /\ \E r \in {ApiKeyCleanupExpiredCall(Here, now, "none")} :
          /\ r.out.kind = "ok"
          /\ r.db = [db EXCEPT !.api_keys = @ \ PastKeys]
          /\ r.value = <<[count |-> Cardinality(PastKeys)]>>
          /\ \A order \in SoonestFirst({ExpiredColumns(k) : k \in Expired(r.db, now)}) :
                ApiKeyGetExpiredCall(Start(r.db, r.ids, r.rnd), now, order, "none").value
                    = <<>>
    /\ \A order \in SoonestFirst({ExpiredColumns(k) : k \in Expired(db, now)}) :
          \E r \in {ApiKeyGetExpiredCall(Here, now, order, "none")} :
              /\ r.out.kind = "ok"
              /\ r.db = db
              /\ {r.value[i].id : i \in 1..Len(r.value)} = {k.id : k \in PastKeys}
              /\ Len(r.value) = Cardinality(PastKeys)
              /\ \A i, j \in 1..Len(r.value) :
                    i < j => r.value[i].expires_at <= r.value[j].expires_at

\* cleanupExpired has just deleted a key and left a key that has an
\* expiration or none.
C24_CleanedUpAndKeysLeft ==
    /\ last.op = "apiKeys.cleanupExpired"
    /\ last.kind = "ok"
    /\ last.value[1].count >= 1
    /\ db.api_keys # {}
    /\ PastKeys = {}

\* C25: a project updateMember or removeMember, run on its own, never leaves
\* a project that had an OWNER without one; the demotion or removal of an
\* OWNER of a project with one OWNER fails on the owner count and changes
\* nothing; updateMember to OWNER succeeds for every member, whatever the
\* number of OWNERs.
C25_ProjectKeepsItsLastOwner ==
    \A p \in db.projects, userId \in IdInputs("usr") :
        /\ \A role \in ProjectRoles :
              \E r \in {ProjUpdateMemberCall(Here, p.id, userId, role, "none")} :
                  /\ ProjectOwnersCount(db, p.id) >= 1
                        => ProjectOwnersCount(r.db, p.id) >= 1
                  /\ (/\ role # "OWNER"
                      /\ ProjectOwnersCount(db, p.id) = 1
                      /\ \E m \in ProjectMembershipsOf(db, p.id, userId) :
                            m.role = "OWNER")
                        => /\ r.out.cause = "BusinessLogicError"
                           /\ r.db = db
                  /\ (role = "OWNER" /\ ProjectMembershipsOf(db, p.id, userId) # {})
                        => /\ r.out.kind = "ok"
                           /\ r.db = ProjSetRole(db, p.id, userId, "OWNER")
        /\ \E r \in {ProjRemoveMemberCall(Here, p.id, userId, "none")} :
              /\ ProjectOwnersCount(db, p.id) >= 1
                    => ProjectOwnersCount(r.db, p.id) >= 1
              /\ (/\ ProjectOwnersCount(db, p.id) = 1
                  /\ \E m \in ProjectMembershipsOf(db, p.id, userId) :
                        m.role = "OWNER")
                    => /\ r.out.cause = "BusinessLogicError"
                       /\ r.db = db

\* The removal of the one OWNER of a project with several members has just
\* been refused.
C25_LastProjectOwnerRemovalRefused ==
    /\ last.op = "projectMemberships.removeMember"
    /\ last.cause = "BusinessLogicError"
    /\ \E p \in db.projects :
          /\ ProjectOwnersCount(db, p.id) = 1
          /\ Cardinality({m \in db.project_memberships : m.project_id = p.id}) >= 2

\* No secret verifies with the public key that the row with this id has in
\* the tables d.
RowIsDead(d, id) ==
    \A j \in d.api_keys : j.id = id => VerifyingSecrets(d, j.public_key) = {}

\* C26 as stated: a key row that is expired stays unverifiable after any
\* updateExpiration, regenerate or updateNote, and a key that was deleted
\* (by delete or cleanupExpired) is gone: its public key verifies with no
\* secret, and a key created afterwards has another id and public key.
C26_LifecycleIsOneWay ==
    \A k \in db.api_keys :
        /\ HasExpired(k, now) =>
              /\ \A e \in AnyExpiresAt :
                    /\ RowIsDead(ApiKeyUpdateExpirationCall(Here, k.id, e, now, "none").db,
                                 k.id)
                    /\ RowIsDead(ApiKeyRegenerateCall(Here, k.id,
                                    [given |-> TRUE, expiresAt |-> e], now, "none").db,
                                 k.id)
              /\ RowIsDead(ApiKeyRegenerateCall(Here, k.id,
                              [given |-> FALSE, expiresAt |-> Null], now, "none").db,
                           k.id)
              /\ RowIsDead(ApiKeyUpdateNoteCall(Here, k.id, 1, "none").db, k.id)
        /\ \A r \in {ApiKeyDeleteCall(Here, k.id, "none"),
                     ApiKeyCleanupExpiredCall(Here, now, "none")} :
              (\A j \in r.db.api_keys : j.id # k.id) =>
                  /\ VerifyingSecrets(r.db, k.public_key) = {}
                  /\ \A p \in db.projects :
                        \A j \in ApiKeyCreateCall(Start(r.db, r.ids, r.rnd), p.id, Null,
                                                  Null, now, "none").db.api_keys :
                            j.id # k.id /\ j.public_key # k.public_key

\* C27 as stated: after a successful regenerate of a key of a project that
\* is not soft-deleted, verify with the returned public key and secret
\* resolves to the key's project, also when the key had expired and
\* expiresAt was left out.
C27_RegeneratedPairVerifies ==
    \A k \in db.api_keys, options \in RegenerateOptions :
        (\E p \in db.projects : p.id = k.project_id /\ p.deleted_at = Null) =>
            \E r \in {ApiKeyRegenerateCall(Here, k.id, options, now, "none")} :
                r.out.kind = "ok" =>
                    \E v \in {ApiKeyVerifyCall(Start(r.db, r.ids, r.rnd),
                                               r.value[1].public_key,
                                               r.value[1].secretKey, now, "none")} :
                        /\ v.value # <<>>
                        /\ v.value[1].id = k.project_id

\* C28 as stated: whatever the interleaving of concurrent addMember
\* transactions, the committed tables hold at most one organization
\* membership per organization and user and at most one project membership
\* per project and user.
C28_OneMembershipPerPairUnderRaces ==
    /\ \A m, n \in db.organization_memberships :
          (m.org_id = n.org_id /\ m.user_id = n.user_id) => m = n
    /\ \A m, n \in db.project_memberships :
          (m.project_id = n.project_id /\ m.user_id = n.user_id) => m = n

\* C29 as stated: whatever the interleaving of removeMember and addMember
\* transactions, every committed project membership refers to an
\* organization membership that is in the committed tables.
C29_NoOrphanProjectMembership ==
    \A pm \in db.project_memberships :
        \E om \in db.organization_memberships : om.id = pm.org_membership_id

\* C30 as stated: whatever the interleaving of delete and addMember
\* transactions, every committed organization membership and project
\* membership is that of a user who is in the committed tables.
C30_MembershipsHaveTheirUser ==
    /\ \A m \in db.organization_memberships : UserExists(db, m.user_id)
    /\ \A m \in db.project_memberships : UserExists(db, m.user_id)

====
